---- MODULE Spec2Model ----
(***************************************************************************)
(* A model of the in-memory tree of wrapped_filesys.hpp: class File (a     *)
(* name and an owned, optional payload buffer, String* data_) and class    *)
(* Dir (a name and two owned, lazily allocated child collections,          *)
(* Vec<File>* subFiles_ and Vec<Dir>* subDirs_).                           *)
(*                                                                         *)
(* The free store is modelled explicitly: three heaps hold the String      *)
(* buffers, the Vec<File> objects and the Vec<Dir> objects, and a File or  *)
(* Dir holds addresses into them (0 is nullptr).  A caller's program is    *)
(* modelled by three objects with automatic storage, `Dir root`, `Dir xd`  *)
(* and `File xf`, on which any public operation may be called next.        *)
(* Names are sequences of characters, payloads sequences of bytes.         *)
(***************************************************************************)
EXTENDS Integers, Sequences, FiniteSets, TLC

VARIABLES
    root,     \* Dir: the caller's tree
    xd,       \* Dir: a second Dir object of the caller
    xf,       \* File: a File object of the caller
    strs,     \* heap of String payload buffers: address -> [live, s]
    fvecs,    \* heap of Vec<File> objects:      address -> [live, v]
    dvecs,    \* heap of Vec<Dir> objects:       address -> [live, v]
    disk,     \* what is below the directory p the caller writes to: path -> entry
    last      \* the last operation called and how it ended

vars == <<root, xd, xf, strs, fvecs, dvecs, disk, last>>

-----------------------------------------------------------------------------
(* Bounds of the model *)

\* longest child collection
MaxKids == 3
\* number of File objects all child collections together hold
MaxFiles == 2
\* number of Dir objects all child collections together hold
MaxDirs == 2
\* number of File and Dir objects all child collections together hold
MaxNodes == 3
\* the same three numbers for a caller that only calls file() and dir()
MaxGrownFiles == 5
MaxGrownDirs == 2
MaxGrownNodes == 6
\* number of entries other programs put below the directory p
MaxEntries == 3
\* length of the payload a caller builds by appending
MaxLen == 2
\* number of calls on one File that are followed from a state
MaxOps == 2

\* The free store has room for what these bounds admit, and for the copies an
\* operation holds while it runs.
StrCells == 2 * MaxFiles + 1
FVecCells == 2 * MaxDirs + MaxGrownDirs + 2
DVecCells == 2 * MaxDirs + MaxGrownDirs + 2

-----------------------------------------------------------------------------
(* Constants of the program *)

\* constexpr const char* FILENAME_INVALID_CHARS = "\\/:*?\"<>|";
FILENAME_INVALID_CHARS == {"\\", "/", ":", "*", "?", "\"", "<", ">", "|"}

\* static constexpr size_t NOF_ = size_t(-1): the position no element has
NOF_ == -1

\* nullptr
NULL == 0

-----------------------------------------------------------------------------
(* Pure helpers *)

\* bool isValidFilename(const String& filename)
isValidFilename(filename) ==
    IF Len(filename) = 0 THEN FALSE
    ELSE IF filename = <<".">> \/ filename = <<".", ".">> THEN FALSE
    ELSE IF \E i \in 1..Len(filename) : filename[i] \in FILENAME_INVALID_CHARS THEN FALSE
    ELSE TRUE

Min(S) == CHOOSE x \in S : \A y \in S : x <= y

-----------------------------------------------------------------------------
(* The memory: every operation of the program maps a memory to a memory.   *)
(* tf and td are the temporaries File(name) and Dir(name) of an            *)
(* expression, tmps the temporaries of the nested calls of                 *)
(* Dir::fromDiskPath; ret is the value the last call returned (an address  *)
(* or a position); raised says that the operation threw; oom says that a   *)
(* bound of the model was passed (such steps are not taken).               *)

EmptyFile == [name_ |-> <<>>, data_ |-> NULL]
EmptyDir == [name_ |-> <<>>, subFiles_ |-> NULL, subDirs_ |-> NULL]
FreeStr == [live |-> FALSE, s |-> <<>>]
FreeFVec == [live |-> FALSE, v |-> <<>>]
FreeDVec == [live |-> FALSE, v |-> <<>>]

M ==
    [root |-> root, xd |-> xd, xf |-> xf, tf |-> EmptyFile, td |-> EmptyDir,
     tmps |-> [i \in 1..MaxDirs + 1 |-> EmptyDir],
     strs |-> strs, fvecs |-> fvecs, dvecs |-> dvecs, disk |-> disk,
     ret |-> NULL, raised |-> FALSE, oom |-> FALSE, log |-> <<>>]

\* places a File or a Dir object can be at
LRoot == [k |-> "root", a |-> 0, i |-> 0]
LXd == [k |-> "xd", a |-> 0, i |-> 0]
LXf == [k |-> "xf", a |-> 0, i |-> 0]
LTf == [k |-> "tf", a |-> 0, i |-> 0]
LTd == [k |-> "td", a |-> 0, i |-> 0]
LTmp(i) == [k |-> "tmp", a |-> 0, i |-> i]
LElem(a, i) == [k |-> "vec", a |-> a, i |-> i]

FileAt(m, l) ==
    CASE l.k = "xf" -> m.xf
      [] l.k = "tf" -> m.tf
      [] OTHER -> m.fvecs[l.a].v[l.i]

SetFileAt(m, l, f) ==
    CASE l.k = "xf" -> [m EXCEPT !.xf = f]
      [] l.k = "tf" -> [m EXCEPT !.tf = f]
      [] OTHER -> [m EXCEPT !.fvecs[l.a].v[l.i] = f]

DirAt(m, l) ==
    CASE l.k = "root" -> m.root
      [] l.k = "xd" -> m.xd
      [] l.k = "td" -> m.td
      [] l.k = "tmp" -> m.tmps[l.i]
      [] OTHER -> m.dvecs[l.a].v[l.i]

SetDirAt(m, l, d) ==
    CASE l.k = "root" -> [m EXCEPT !.root = d]
      [] l.k = "xd" -> [m EXCEPT !.xd = d]
      [] l.k = "td" -> [m EXCEPT !.td = d]
      [] l.k = "tmp" -> [m EXCEPT !.tmps[l.i] = d]
      [] OTHER -> [m EXCEPT !.dvecs[l.a].v[l.i] = d]

\* the lowest free address of a heap, 0 when it is full
FreeCell(h) == IF \A a \in DOMAIN h : h[a].live THEN NULL ELSE Min({a \in DOMAIN h : ~h[a].live})

\* the model's bound is passed
Full(m) == [m EXCEPT !.oom = TRUE, !.ret = NULL]

\* new String(s) at address a
NewStringAt(m, a, s) ==
    IF a = NULL THEN Full(m) ELSE [m EXCEPT !.strs[a] = [live |-> TRUE, s |-> s], !.ret = a]

\* new String(s): ret is the buffer's address
NewString(m, s) == NewStringAt(m, FreeCell(m.strs), s)

\* new Vec<File>() at address a
NewFVecAt(m, a) ==
    IF a = NULL THEN Full(m) ELSE [m EXCEPT !.fvecs[a] = [live |-> TRUE, v |-> <<>>], !.ret = a]

\* new Vec<File>(): ret is the vector's address
NewFVec(m) == NewFVecAt(m, FreeCell(m.fvecs))

\* new Vec<Dir>() at address a
NewDVecAt(m, a) ==
    IF a = NULL THEN Full(m) ELSE [m EXCEPT !.dvecs[a] = [live |-> TRUE, v |-> <<>>], !.ret = a]

\* new Vec<Dir>(): ret is the vector's address
NewDVec(m) == NewDVecAt(m, FreeCell(m.dvecs))

-----------------------------------------------------------------------------
(* class File *)

\* explicit File(const String& name) { setName(name); }  with
\* void setName(const String& name) { name_ = name; }
File_setName(m, l, name) == SetFileAt(m, l, [FileAt(m, l) EXCEPT !.name_ = name])

\* String data() const
File_data(m, f) == IF f.data_ # NULL THEN m.strs[f.data_].s ELSE <<>>

\* size_t size() const
File_size(m, f) == IF f.data_ # NULL THEN Len(m.strs[f.data_].s) ELSE 0

\* void releaseData()
File_releaseData(m, l) ==
    IF FileAt(m, l).data_ # NULL
    THEN SetFileAt([m EXCEPT !.strs[FileAt(m, l).data_] = FreeStr], l,
                   [FileAt(m, l) EXCEPT !.data_ = NULL])
    ELSE m

\* data_ = <the buffer just allocated>
SetData(m, l) == SetFileAt(m, l, [FileAt(m, l) EXCEPT !.data_ = m.ret])

\* File& operator=(const String& data)
File_assign(m, l, data) == SetData(NewString(File_releaseData(m, l), data), l)

\* operator<<(const String&) were it to replace the payload
File_append_Assign(m, l, data) == File_assign(m, l, data)

\* File& operator<<(const String& data)
File_append(m, l, data) ==
    IF FileAt(m, l).data_ = NULL THEN SetData(NewString(m, data), l)
    ELSE [m EXCEPT !.strs[FileAt(m, l).data_].s = @ \o data]

\* File& operator<<(const File& other): as operator<<(const String&), of
\* other.data(), which is a String of its own
File_appendFile(m, dst, src) == File_append(m, dst, File_data(m, FileAt(m, src)))

\* void write(OStream& os) const: what the stream takes
File_writeStream(m, f) == IF f.data_ # NULL THEN m.strs[f.data_].s ELSE <<>>

\* a copy were it to take the buffer of its source
CopyData_Shared(m, dst, src) ==
    SetFileAt(m, dst, [FileAt(m, dst) EXCEPT !.data_ = FileAt(m, src).data_])

\* if (other.data_) data_ = new String(*other.data_);
CopyData(m, dst, src) ==
    IF FileAt(m, src).data_ # NULL
    THEN SetData(NewString(m, m.strs[FileAt(m, src).data_].s), dst)
    ELSE m

\* File& operator=(const File& other), other read where the code reads it
File_copyAssign(m, dst, src) ==
    CopyData(File_releaseData(File_setName(m, dst, FileAt(m, src).name_), dst), dst, src)

\* File(const File& other), the new object built at dst
File_copyCtor(m, dst, src) ==
    CopyData(SetFileAt(m, dst, [name_ |-> FileAt(m, src).name_, data_ |-> NULL]), dst, src)

\* File(File&& other) noexcept, the new object built at dst
File_moveCtor(m, dst, src) ==
    SetFileAt(SetFileAt(m, dst, FileAt(m, src)), src, [FileAt(m, src) EXCEPT !.data_ = NULL])

-----------------------------------------------------------------------------
(* class Dir: the child collections *)

\* the elements of a child collection, <<>> for nullptr
Kids(h, a) == IF a = NULL THEN <<>> ELSE h[a].v

\* size_t hasFile_(const String& name) const, positions counted from 0
hasFile_(m, d, name) ==
    IF d.subFiles_ # NULL /\ \E i \in 1..Len(m.fvecs[d.subFiles_].v) : m.fvecs[d.subFiles_].v[i].name_ = name
    THEN Min({i \in 1..Len(m.fvecs[d.subFiles_].v) : m.fvecs[d.subFiles_].v[i].name_ = name}) - 1
    ELSE NOF_

\* size_t hasDir_(const String& name) const, positions counted from 0
hasDir_(m, d, name) ==
    IF d.subDirs_ # NULL /\ \E i \in 1..Len(m.dvecs[d.subDirs_].v) : m.dvecs[d.subDirs_].v[i].name_ = name
    THEN Min({i \in 1..Len(m.dvecs[d.subDirs_].v) : m.dvecs[d.subDirs_].v[i].name_ = name}) - 1
    ELSE NOF_

\* storage for one more element at the end of a Vec<File>
PushRawFile(m, a) == [m EXCEPT !.fvecs[a].v = Append(@, EmptyFile)]

\* storage for one more element at the end of a Vec<Dir>
PushRawDir(m, a) == [m EXCEPT !.dvecs[a].v = Append(@, EmptyDir)]

\* ret = a
Ret(m, a) == [m EXCEPT !.ret = a]

RECURSIVE CopyFilesFrom(_, _, _, _)
\* the element-wise copy of std::vector<File>'s copy constructor, from element i on
CopyFilesFrom(m, src, dst, i) ==
    IF i > Len(m.fvecs[src].v) THEN m
    ELSE CopyFilesFrom(File_copyCtor(PushRawFile(m, dst), LElem(dst, i), LElem(src, i)),
                       src, dst, i + 1)

\* the elements of src copied into the vector just allocated
CopyFVecInto(m, src) == IF m.ret = NULL THEN m ELSE Ret(CopyFilesFrom(m, src, m.ret, 1), m.ret)

\* new Vec<File>(*other.subFiles_): ret is the new vector's address
CopyFVec(m, src) == CopyFVecInto(NewFVec(m), src)

\* subFiles_ = <the vector just allocated>
SetSubFiles(m, l) == SetDirAt(m, l, [DirAt(m, l) EXCEPT !.subFiles_ = m.ret])

\* subDirs_ = <the vector just allocated>
SetSubDirs(m, l) == SetDirAt(m, l, [DirAt(m, l) EXCEPT !.subDirs_ = m.ret])

\* if (other.subFiles_) subFiles_ = new Vec<File>(*other.subFiles_);
CopySubFiles(m, dst, src) ==
    IF DirAt(m, src).subFiles_ # NULL
    THEN SetSubFiles(CopyFVec(m, DirAt(m, src).subFiles_), dst)
    ELSE m

RECURSIVE Dir_copyCtor(_, _, _)
RECURSIVE CopyDirsFrom(_, _, _, _)
\* the element-wise copy of std::vector<Dir>'s copy constructor, from element i on
CopyDirsFrom(m, src, dst, i) ==
    IF i > Len(m.dvecs[src].v) THEN m
    ELSE CopyDirsFrom(Dir_copyCtor(PushRawDir(m, dst), LElem(dst, i), LElem(src, i)),
                      src, dst, i + 1)

\* the elements of src copied into the vector just allocated
CopyDVecInto(m, src) == IF m.ret = NULL THEN m ELSE Ret(CopyDirsFrom(m, src, m.ret, 1), m.ret)

\* new Vec<Dir>(*other.subDirs_): ret is the new vector's address
CopyDVec(m, src) == CopyDVecInto(NewDVec(m), src)

\* if (other.subDirs_) subDirs_ = new Vec<Dir>(*other.subDirs_);
CopySubDirs(m, dst, src) ==
    IF DirAt(m, src).subDirs_ # NULL
    THEN SetSubDirs(CopyDVec(m, DirAt(m, src).subDirs_), dst)
    ELSE m

\* Dir(const Dir& other), the new object built at dst
Dir_copyCtor(m, dst, src) ==
    CopySubDirs(CopySubFiles(SetDirAt(m, dst, [EmptyDir EXCEPT !.name_ = DirAt(m, src).name_]),
                             dst, src),
                dst, src)

\* Dir(Dir&& other) noexcept, the new object built at dst
Dir_moveCtor(m, dst, src) ==
    SetDirAt(SetDirAt(m, dst, DirAt(m, src)), src,
             [DirAt(m, src) EXCEPT !.subFiles_ = NULL, !.subDirs_ = NULL])

\* delete subFiles_: ~File() { releaseData(); } of every element, then the vector
DeleteFVec(m, a) ==
    [m EXCEPT !.strs = [x \in DOMAIN m.strs |->
                          IF \E i \in 1..Len(m.fvecs[a].v) : m.fvecs[a].v[i].data_ = x
                          THEN FreeStr ELSE m.strs[x]],
              !.fvecs[a] = FreeFVec]

RECURSIVE DeleteDVec(_, _)
RECURSIVE DestroyDirsFrom(_, _, _)

\* ~Dir() { clear(); } of Dir value d
DestroyDir(m, d) ==
    IF d.subDirs_ # NULL
    THEN DeleteDVec(IF d.subFiles_ # NULL THEN DeleteFVec(m, d.subFiles_) ELSE m, d.subDirs_)
    ELSE IF d.subFiles_ # NULL THEN DeleteFVec(m, d.subFiles_) ELSE m

\* the destructors of the elements of a Vec<Dir>, from element i on
DestroyDirsFrom(m, v, i) ==
    IF i > Len(v) THEN m ELSE DestroyDirsFrom(DestroyDir(m, v[i]), v, i + 1)

\* delete subDirs_
DeleteDVec(m, a) == [DestroyDirsFrom(m, m.dvecs[a].v, 1) EXCEPT !.dvecs[a] = FreeDVec]

\* void clearFiles()
Dir_clearFiles(m, l) ==
    IF DirAt(m, l).subFiles_ # NULL
    THEN SetDirAt(DeleteFVec(m, DirAt(m, l).subFiles_), l, [DirAt(m, l) EXCEPT !.subFiles_ = NULL])
    ELSE m

\* void clearDirs()
Dir_clearDirs(m, l) ==
    IF DirAt(m, l).subDirs_ # NULL
    THEN SetDirAt(DeleteDVec(m, DirAt(m, l).subDirs_), l, [DirAt(m, l) EXCEPT !.subDirs_ = NULL])
    ELSE m

\* void clear()
Dir_clear(m, l) == Dir_clearDirs(Dir_clearFiles(m, l), l)

\* Dir& operator=(const Dir& other), other read where the code reads it
Dir_copyAssign(m, dst, src) ==
    CopySubDirs(CopySubFiles(Dir_clear(SetDirAt(m, dst, [DirAt(m, dst) EXCEPT
                                                           !.name_ = DirAt(m, src).name_]),
                                       dst),
                             dst, src),
                dst, src)

\* void setName(const String& name)
Dir_setName(m, l, name) ==
    IF ~isValidFilename(name) THEN [m EXCEPT !.raised = TRUE]
    ELSE SetDirAt(m, l, [DirAt(m, l) EXCEPT !.name_ = name])

-----------------------------------------------------------------------------
(* class Dir: insertion, access, removal *)

\* if (!subFiles_) subFiles_ = new Vec<File>();
EnsureSubFiles(m, l) == IF DirAt(m, l).subFiles_ = NULL THEN SetSubFiles(NewFVec(m), l) ELSE m

\* if (!subDirs_) subDirs_ = new Vec<Dir>();
EnsureSubDirs(m, l) == IF DirAt(m, l).subDirs_ = NULL THEN SetSubDirs(NewDVec(m), l) ELSE m

\* subFiles_->emplace_back(std::move(file)): File(File&&) builds the new last element
EmplaceBackFile(m, a, src) ==
    IF Len(m.fvecs[a].v) >= MaxKids THEN Full(m)
    ELSE File_moveCtor(PushRawFile(m, a), LElem(a, Len(m.fvecs[a].v) + 1), src)

\* subDirs_->emplace_back(std::move(dir)): Dir(Dir&&) builds the new last element
EmplaceBackDir(m, a, src) ==
    IF Len(m.dvecs[a].v) >= MaxKids THEN Full(m)
    ELSE Dir_moveCtor(PushRawDir(m, a), LElem(a, Len(m.dvecs[a].v) + 1), src)

\* add(File&) were it to replace an existing child whatever isOverwrite is
AddFileAt_Always(m, a, pos, src, isOverwrite) ==
    IF a = NULL THEN m
    ELSE IF pos # NOF_ THEN File_copyAssign(m, LElem(a, pos + 1), src)
         ELSE EmplaceBackFile(m, a, src)

\* add(File&) from `size_t pos = hasFile_(file.name())` on.  File declares no
\* move assignment, so `(*subFiles_)[pos] = std::move(file)` is
\* operator=(const File&).
AddFileAt(m, a, pos, src, isOverwrite) ==
    IF a = NULL THEN m
    ELSE IF pos # NOF_
         THEN (IF isOverwrite THEN File_copyAssign(m, LElem(a, pos + 1), src) ELSE m)
         ELSE EmplaceBackFile(m, a, src)

\* add(File&) after the collection is allocated
AddFileIn(m, l, src, isOverwrite) ==
    AddFileAt(m, DirAt(m, l).subFiles_, hasFile_(m, DirAt(m, l), FileAt(m, src).name_),
              src, isOverwrite)

\* void add(File& file, bool isOverwrite = false)
Dir_add_File(m, l, src, isOverwrite) == AddFileIn(EnsureSubFiles(m, l), l, src, isOverwrite)

\* add(Dir&) from `size_t pos = hasDir_(dir.name())` on.  Dir declares no move
\* assignment, so `(*subDirs_)[pos] = std::move(dir)` is operator=(const Dir&).
AddDirAt(m, a, pos, src, isOverwrite) ==
    IF a = NULL THEN m
    ELSE IF pos # NOF_
         THEN (IF isOverwrite THEN Dir_copyAssign(m, LElem(a, pos + 1), src) ELSE m)
         ELSE EmplaceBackDir(m, a, src)

\* add(Dir&) after the collection is allocated
AddDirIn(m, l, src, isOverwrite) ==
    AddDirAt(m, DirAt(m, l).subDirs_, hasDir_(m, DirAt(m, l), DirAt(m, src).name_),
             src, isOverwrite)

\* void add(Dir& dir, bool isOverwrite = false)
Dir_add_Dir(m, l, src, isOverwrite) == AddDirIn(EnsureSubDirs(m, l), l, src, isOverwrite)

\* return subFiles_->back(): ret is the position of the last child File
BackFile(m, l) ==
    Ret(m, IF DirAt(m, l).subFiles_ = NULL THEN NOF_
           ELSE Len(m.fvecs[DirAt(m, l).subFiles_].v) - 1)

\* dir(name) were it to return subDirs_->front()
BackDir_Front(m, l) == Ret(m, IF DirAt(m, l).subDirs_ = NULL THEN NOF_ ELSE 0)

\* return subDirs_->back(): ret is the position of the last child Dir
BackDir(m, l) ==
    Ret(m, IF DirAt(m, l).subDirs_ = NULL THEN NOF_
           ELSE Len(m.dvecs[DirAt(m, l).subDirs_].v) - 1)

\* File& file(const String& name): ret is the position of the child returned.
\* The temporary File(name) is destroyed at the end of add(File(name)).
Dir_file(m, l, name) ==
    IF hasFile_(m, DirAt(m, l), name) = NOF_
    THEN BackFile(File_releaseData(Dir_add_File(File_setName([m EXCEPT !.tf = EmptyFile],
                                                             LTf, name),
                                                l, LTf, FALSE),
                                   LTf),
                  l)
    ELSE Ret(m, hasFile_(m, DirAt(m, l), name))

\* add(Dir(name)); return subDirs_->back();  after Dir(name) was evaluated
AddNamedDir(m, l) ==
    IF m.raised THEN m
    ELSE BackDir(Dir_clear(Dir_add_Dir(m, l, LTd, FALSE), LTd), l)

\* Dir& dir(const String& name): ret is the position of the child returned.
\* explicit Dir(const String& name) { setName(name); }  throws before add.
Dir_dir(m, l, name) ==
    IF hasDir_(m, DirAt(m, l), name) = NOF_
    THEN AddNamedDir(Dir_setName([m EXCEPT !.td = EmptyDir], LTd, name), l)
    ELSE Ret(m, hasDir_(m, DirAt(m, l), name))

RECURSIVE ShiftFilesFrom(_, _, _)
\* std::vector<File>::erase: every element after the erased one is assigned
\* to the one before it (File has only the copy assignment)
ShiftFilesFrom(m, a, i) ==
    IF i >= Len(m.fvecs[a].v) THEN m
    ELSE ShiftFilesFrom(File_copyAssign(m, LElem(a, i), LElem(a, i + 1)), a, i + 1)

\* std::vector<File>::erase: the last element is destroyed
PopBackFile(m, a) ==
    [File_releaseData(m, LElem(a, Len(m.fvecs[a].v)))
        EXCEPT !.fvecs[a].v = SubSeq(@, 1, Len(@) - 1)]

\* subFiles_->erase(subFiles_->begin() + pos)
EraseFile(m, a, pos) == IF pos = NOF_ THEN m ELSE PopBackFile(ShiftFilesFrom(m, a, pos + 1), a)

\* void removeFile(const String& name)
Dir_removeFile(m, l, name) ==
    EraseFile(m, DirAt(m, l).subFiles_, hasFile_(m, DirAt(m, l), name))

RECURSIVE ShiftDirsFrom(_, _, _)
\* std::vector<Dir>::erase: every element after the erased one is assigned to
\* the one before it (Dir has only the copy assignment)
ShiftDirsFrom(m, a, i) ==
    IF i >= Len(m.dvecs[a].v) THEN m
    ELSE ShiftDirsFrom(Dir_copyAssign(m, LElem(a, i), LElem(a, i + 1)), a, i + 1)

\* std::vector<Dir>::erase: the last element is destroyed
PopBackDir(m, a) ==
    [Dir_clear(m, LElem(a, Len(m.dvecs[a].v)))
        EXCEPT !.dvecs[a].v = SubSeq(@, 1, Len(@) - 1)]

\* subDirs_->erase(subDirs_->begin() + pos)
EraseDir(m, a, pos) == IF pos = NOF_ THEN m ELSE PopBackDir(ShiftDirsFrom(m, a, pos + 1), a)

\* void removeDir(const String& name)
Dir_removeDir(m, l, name) ==
    EraseDir(m, DirAt(m, l).subDirs_, hasDir_(m, DirAt(m, l), name))

RECURSIVE ReleaseFilesFrom(_, _, _)
\* for (auto& var : *subFiles_) var.releaseData();  from element i on
ReleaseFilesFrom(m, a, i) ==
    IF i > Len(m.fvecs[a].v) THEN m
    ELSE ReleaseFilesFrom(File_releaseData(m, LElem(a, i)), a, i + 1)

\* if (subFiles_) for (auto& var : *subFiles_) var.releaseData();
ReleaseSubFiles(m, l) ==
    IF DirAt(m, l).subFiles_ # NULL THEN ReleaseFilesFrom(m, DirAt(m, l).subFiles_, 1) ELSE m

RECURSIVE Dir_releaseAllFilesData(_, _)
RECURSIVE ReleaseDirsFrom(_, _, _)
\* for (auto& var : *subDirs_) var.releaseAllFilesData();  from element i on
ReleaseDirsFrom(m, a, i) ==
    IF i > Len(m.dvecs[a].v) THEN m
    ELSE ReleaseDirsFrom(Dir_releaseAllFilesData(m, LElem(a, i)), a, i + 1)

\* releaseAllFilesData were it not to descend into the child Dirs
ReleaseSubDirs_None(m, l) == m

\* if (subDirs_) for (auto& var : *subDirs_) var.releaseAllFilesData();
ReleaseSubDirs(m, l) ==
    IF DirAt(m, l).subDirs_ # NULL THEN ReleaseDirsFrom(m, DirAt(m, l).subDirs_, 1) ELSE m

\* void releaseAllFilesData()
Dir_releaseAllFilesData(m, l) == ReleaseSubDirs(ReleaseSubFiles(m, l), l)

-----------------------------------------------------------------------------
(* class Dir: queries, on a Dir value d *)

RECURSIVE SumFileSizes(_, _, _)
\* for (const auto& var : *subFiles_) size += var.size();
SumFileSizes(m, v, i) ==
    IF i > Len(v) THEN 0 ELSE File_size(m, v[i]) + SumFileSizes(m, v, i + 1)

RECURSIVE Dir_size(_, _)
RECURSIVE SumDirSizes(_, _, _)
\* for (const auto& var : *subDirs_) size += var.size();
SumDirSizes(m, v, i) ==
    IF i > Len(v) THEN 0 ELSE Dir_size(m, v[i]) + SumDirSizes(m, v, i + 1)

\* size_t size() const
Dir_size(m, d) ==
    (IF d.subFiles_ # NULL THEN SumFileSizes(m, m.fvecs[d.subFiles_].v, 1) ELSE 0)
    + (IF d.subDirs_ # NULL THEN SumDirSizes(m, m.dvecs[d.subDirs_].v, 1) ELSE 0)

RECURSIVE Dir_fileCount(_, _, _)
RECURSIVE SumFileCounts(_, _, _)
RECURSIVE SumFileCounts_Direct(_, _, _)
\* fileCount were it to count only the direct child Files of the child Dirs
SumFileCounts_Direct(m, v, i) ==
    IF i > Len(v) THEN 0
    ELSE Dir_fileCount(m, v[i], FALSE) + SumFileCounts_Direct(m, v, i + 1)

\* for (const auto& var : *subDirs_) cnt += var.fileCount();
SumFileCounts(m, v, i) ==
    IF i > Len(v) THEN 0 ELSE Dir_fileCount(m, v[i], TRUE) + SumFileCounts(m, v, i + 1)

\* size_t fileCount(bool isRecursive = true) const
Dir_fileCount(m, d, isRecursive) ==
    (IF d.subFiles_ # NULL THEN Len(m.fvecs[d.subFiles_].v) ELSE 0)
    + (IF isRecursive /\ d.subDirs_ # NULL THEN SumFileCounts(m, m.dvecs[d.subDirs_].v, 1) ELSE 0)

RECURSIVE Dir_dirCount(_, _, _)
RECURSIVE SumDirCounts(_, _, _)
\* for (const auto& var : *subDirs_) cnt += var.dirCount();
SumDirCounts(m, v, i) ==
    IF i > Len(v) THEN 0 ELSE Dir_dirCount(m, v[i], TRUE) + SumDirCounts(m, v, i + 1)

\* size_t dirCount(bool isRecursive = true) const
Dir_dirCount(m, d, isRecursive) ==
    (IF d.subDirs_ # NULL THEN Len(m.dvecs[d.subDirs_].v) ELSE 0)
    + (IF isRecursive /\ d.subDirs_ # NULL THEN SumDirCounts(m, m.dvecs[d.subDirs_].v, 1) ELSE 0)

\* size_t count(bool isRecursive = true) const
Dir_count(m, d, isRecursive) == Dir_fileCount(m, d, isRecursive) + Dir_dirCount(m, d, isRecursive)

\* Vec<File>& files() { return *subFiles_; }  The outcomes of the call: the
\* child collection when there is one.  When subFiles_ is nullptr the
\* reference is bound to no object and the behaviour is undefined: the
\* program stops (crash), or goes on with a reference that reads as some
\* vector or other.
Dir_files(m, d) ==
    IF d.subFiles_ # NULL
    THEN {[crash |-> FALSE, v |-> m.fvecs[d.subFiles_].v]}
    ELSE {[crash |-> TRUE, v |-> <<>>]}
         \cup {[crash |-> FALSE, v |-> v] : v \in {<<>>, <<EmptyFile>>}}

\* Vec<Dir>& dirs() { return *subDirs_; }  The outcomes of the call, as those
\* of files()
Dir_dirs(m, d) ==
    IF d.subDirs_ # NULL
    THEN {[crash |-> FALSE, v |-> m.dvecs[d.subDirs_].v]}
    ELSE {[crash |-> TRUE, v |-> <<>>]}
         \cup {[crash |-> FALSE, v |-> v] : v \in {<<>>, <<EmptyDir>>}}

RECURSIVE Dir_hasFile(_, _, _, _)
RECURSIVE AnyHasFile(_, _, _, _)
\* for (const auto& var : *subDirs_) if (var.hasFile(name, true)) return true;
AnyHasFile(m, v, i, name) ==
    /\ i <= Len(v)
    /\ (Dir_hasFile(m, v[i], name, TRUE) \/ AnyHasFile(m, v, i + 1, name))

\* bool hasFile(const String& name, bool isRecursive = false) const
Dir_hasFile(m, d, name, isRecursive) ==
    \/ hasFile_(m, d, name) # NOF_
    \/ (isRecursive /\ d.subDirs_ # NULL /\ AnyHasFile(m, m.dvecs[d.subDirs_].v, 1, name))

RECURSIVE Dir_hasDir(_, _, _, _)
RECURSIVE AnyHasDir(_, _, _, _)
\* for (const auto& var : *subDirs_) if (var.hasDir(name, true)) return true;
AnyHasDir(m, v, i, name) ==
    /\ i <= Len(v)
    /\ (Dir_hasDir(m, v[i], name, TRUE) \/ AnyHasDir(m, v, i + 1, name))

\* bool hasDir(const String& name, bool isRecursive = false) const
Dir_hasDir(m, d, name, isRecursive) ==
    \/ hasDir_(m, d, name) # NOF_
    \/ (isRecursive /\ d.subDirs_ # NULL /\ AnyHasDir(m, m.dvecs[d.subDirs_].v, 1, name))

-----------------------------------------------------------------------------
(* The disk below the parent directory p the caller writes to: a map from  *)
(* the paths that exist, sequences of names below p, to what is there.     *)

DiskDir == [kind |-> "dir", data |-> <<>>]
DiskFile(data) == [kind |-> "file", data |-> data]

\* the directory p, nothing in it
EmptyDisk == <<>> :> DiskDir

RECURSIVE ResolveFrom(_, _, _)
\* the entry the components of path from the i-th on lead to, from entry q
ResolveFrom(path, i, q) ==
    IF i > Len(path) THEN q
    ELSE IF path[i] \in {<<>>, <<".">>} THEN ResolveFrom(path, i + 1, q)
    ELSE IF path[i] = <<".", ".">> THEN ResolveFrom(path, i + 1, SubSeq(q, 1, Len(q) - 1))
    ELSE ResolveFrom(path, i + 1, Append(q, path[i]))

\* the entry a path leads to as the file system reads it: an empty
\* component (a separator that is doubled or ends the path) and "." stay
\* where they are, ".." goes up
Resolve(path) == ResolveFrom(path, 1, <<>>)

\* bool isFile(const String& path)
isFile(dk, path) == Resolve(path) \in DOMAIN dk /\ dk[Resolve(path)].kind = "file"

\* bool isDirectory(const String& path)
isDirectory(dk, path) == Resolve(path) \in DOMAIN dk /\ dk[Resolve(path)].kind = "dir"

\* path.parent_path()
parentPath(path) == SubSeq(path, 1, Len(path) - 1)

\* String filenameEx(const String& path)
filenameEx(path) == path[Len(path)]

\* the call threw
Raise(m) == [m EXCEPT !.raised = TRUE]

\* log takes the call op on path, made with flag ow: the calls a write makes
\* on the file system, in the order it makes them
Called(m, op, path, ow) ==
    [m EXCEPT !.log = Append(@, [op |-> op, path |-> path, ow |-> ow])]

\* bool createDirectory(const String& path), fs::create_directory: nothing
\* happens when the directory exists; when the path is something else the
\* call throws or returns false, as the build's library has it (strict)
createDirectory(m, path, strict) ==
    IF isDirectory(m.disk, path) THEN Called(m, "createDirectory", path, FALSE)
    ELSE IF Resolve(path) \in DOMAIN m.disk
         THEN (IF strict THEN Raise(Called(m, "createDirectory", path, FALSE))
               ELSE Called(m, "createDirectory", path, FALSE))
    ELSE IF ~isDirectory(m.disk, parentPath(path))
         THEN Raise(Called(m, "createDirectory", path, FALSE))
    ELSE [Called(m, "createDirectory", path, FALSE)
            EXCEPT !.disk = (Resolve(path) :> DiskDir) @@ @]

\* std::ofstream ofs(_path.data(), openmode); if (!ofs.is_open()) throw;
\* write(ofs);  the file is made or truncated, then takes the payload
WriteStream(m, f, path) ==
    IF isDirectory(m.disk, path) \/ ~isDirectory(m.disk, parentPath(path)) THEN Raise(m)
    ELSE [m EXCEPT !.disk = (Resolve(path) :> DiskFile(File_data(m, f))) @@ @]

\* void File::write(const String& path, bool isOverwrite, openmode) const
File_write(m, f, path, isOverwrite) ==
    IF ~isOverwrite /\ isFile(m.disk, Append(path, f.name_))
    THEN Called(m, "write", Append(path, f.name_), isOverwrite)
    ELSE WriteStream(Called(m, "write", Append(path, f.name_), isOverwrite), f,
                     Append(path, f.name_))

RECURSIVE WriteFilesFrom(_, _, _, _, _)
\* for (const auto& var : *subFiles_) var.write(root, isOverwrite, openmode);
WriteFilesFrom(m, v, i, path, isOverwrite) ==
    IF m.raised \/ i > Len(v) THEN m
    ELSE WriteFilesFrom(File_write(m, v[i], path, isOverwrite), v, i + 1, path, isOverwrite)

RECURSIVE Dir_write(_, _, _, _, _)
RECURSIVE WriteDirsFrom(_, _, _, _, _, _)
\* for (const auto& var : *subDirs_) var.write(root, isOverwrite);
WriteDirsFrom(m, v, i, path, isOverwrite, strict) ==
    IF m.raised \/ i > Len(v) THEN m
    ELSE WriteDirsFrom(Dir_write(m, v[i], path, isOverwrite, strict), v, i + 1, path,
                       isOverwrite, strict)

\* Dir::write were it to write the child Dirs before the child Files
Dir_write_DirsFirst(m, d, path, isOverwrite, strict) ==
    WriteFilesFrom(WriteDirsFrom(createDirectory(m, Append(path, d.name_), strict),
                                 Kids(m.dvecs, d.subDirs_), 1, Append(path, d.name_),
                                 isOverwrite, strict),
                   Kids(m.fvecs, d.subFiles_), 1, Append(path, d.name_), isOverwrite)

\* void Dir::write(const String& path, bool isOverwrite, openmode) const
Dir_write(m, d, path, isOverwrite, strict) ==
    WriteDirsFrom(WriteFilesFrom(createDirectory(m, Append(path, d.name_), strict),
                                 Kids(m.fvecs, d.subFiles_), 1, Append(path, d.name_),
                                 isOverwrite),
                  Kids(m.dvecs, d.subDirs_), 1, Append(path, d.name_), isOverwrite, strict)

RECURSIVE Enumerate(_)
\* the paths of S in the order the platform enumerates them
Enumerate(S) ==
    IF S = {} THEN <<>>
    ELSE <<CHOOSE x \in S : TRUE>> \o Enumerate(S \ {CHOOSE x \in S : TRUE})

\* sequence s backwards
Reverse(s) == [i \in 1..Len(s) |-> s[Len(s) + 1 - i]]

\* what is of kind kind in the directory path: fs::directory_iterator(path)
\* gives each entry as path / its name
Entries(dk, path, kind) ==
    {Append(path, filenameEx(q)) :
        q \in {q \in DOMAIN dk : /\ Len(q) = Len(Resolve(path)) + 1
                                 /\ parentPath(q) = Resolve(path)
                                 /\ dk[q].kind = kind}}

\* Strings getAllFiles(const String& path, false), in one order or the other
getAllFiles(dk, path, rev) ==
    IF rev THEN Reverse(Enumerate(Entries(dk, path, "file")))
    ELSE Enumerate(Entries(dk, path, "file"))

\* Strings getAllDirectorys(const String& path, false), in one order or the other
getAllDirectorys(dk, path, rev) ==
    IF rev THEN Reverse(Enumerate(Entries(dk, path, "dir")))
    ELSE Enumerate(Entries(dk, path, "dir"))

\* File& operator<<(IStream& is): the payload is allocated when there is
\* none, and takes the bytes of the stream
File_appendStream(m, l, bytes) ==
    IF FileAt(m, l).data_ = NULL THEN SetData(NewString(m, bytes), l)
    ELSE [m EXCEPT !.strs[FileAt(m, l).data_].s = @ \o bytes]

\* static File File::fromDiskPath(const String& filename), built at dst
File_fromDiskPath(m, dst, filename) ==
    IF ~isFile(m.disk, filename) THEN Raise(m)
    ELSE File_appendStream(File_setName(SetFileAt(m, dst, EmptyFile), dst,
                                        filenameEx(filename)),
                           dst, m.disk[Resolve(filename)].data)

\* root << File::fromDiskPath(var);  the temporary is destroyed after it
LoadFile(m, dst, var) ==
    IF m.raised THEN m
    ELSE File_releaseData(Dir_add_File(File_fromDiskPath(m, LTf, var), dst, LTf, FALSE), LTf)

RECURSIVE LoadFilesFrom(_, _, _, _)
\* for (const auto& var : files) root << File::fromDiskPath(var);
LoadFilesFrom(m, dst, files, i) ==
    IF m.raised \/ i > Len(files) THEN m
    ELSE LoadFilesFrom(LoadFile(m, dst, files[i]), dst, files, i + 1)

RECURSIVE Dir_fromDiskPath(_, _, _, _, _)
RECURSIVE LoadDirsFrom(_, _, _, _, _, _)

\* root << Dir::fromDiskPath(var);  the temporary, the depth-th of the nested
\* calls, is destroyed after it
LoadDir(m, dst, var, depth, rev) ==
    IF m.raised THEN m
    ELSE Dir_clear(Dir_add_Dir(Dir_fromDiskPath(m, LTmp(depth), var, depth + 1, rev),
                               dst, LTmp(depth), FALSE),
                   LTmp(depth))

\* for (const auto& var : dirs) root << Dir::fromDiskPath(var);
LoadDirsFrom(m, dst, dirs, i, depth, rev) ==
    IF m.raised \/ i > Len(dirs) THEN m
    ELSE LoadDirsFrom(LoadDir(m, dst, dirs[i], depth, rev), dst, dirs, i + 1, depth, rev)

\* Dir::fromDiskPath after `Dir root(filenameEx(dirpath))`: the enumerations
\* throw when dirpath is no directory
LoadInto(m, dst, dirpath, depth, rev) ==
    IF m.raised THEN m
    ELSE IF ~isDirectory(m.disk, dirpath) THEN Raise(m)
    ELSE IF depth > MaxDirs + 1 THEN Full(m)
    ELSE LoadFilesFrom(LoadDirsFrom(m, dst, getAllDirectorys(m.disk, dirpath, rev), 1,
                                    depth, rev),
                       dst, getAllFiles(m.disk, dirpath, rev), 1)

\* static Dir Dir::fromDiskPath(const String& dirpath), built at dst
Dir_fromDiskPath(m, dst, dirpath, depth, rev) ==
    LoadInto(Dir_setName(SetDirAt(m, dst, EmptyDir), dst, filenameEx(dirpath)), dst,
             dirpath, depth, rev)

-----------------------------------------------------------------------------
(* What a Dir owns: its descendants in the order a walk meets them *)

RECURSIVE DirSeq(_, _)
RECURSIVE DirSeqFrom(_, _, _)
\* the Dirs owned through the elements of v, from element i on
DirSeqFrom(m, v, i) ==
    IF i > Len(v) THEN <<>> ELSE DirSeq(m, v[i]) \o DirSeqFrom(m, v, i + 1)

\* Dir d and every Dir below it
DirSeq(m, d) == <<d>> \o DirSeqFrom(m, Kids(m.dvecs, d.subDirs_), 1)

RECURSIVE FileSeqFrom(_, _, _)
\* the child Files of the Dirs ds, from Dir i on
FileSeqFrom(m, ds, i) ==
    IF i > Len(ds) THEN <<>> ELSE Kids(m.fvecs, ds[i].subFiles_) \o FileSeqFrom(m, ds, i + 1)

\* every File in and below d
FilesOf(m, d) == FileSeqFrom(m, DirSeq(m, d), 1)

\* every Dir below d
DirsOf(m, d) == Tail(DirSeq(m, d))

\* s without its zeros
NonNull(s) == SelectSeq(s, LAMBDA a : a # NULL)

\* the addresses a walk of the caller's objects meets, in order
DVecWalk(ds) == NonNull([i \in 1..Len(ds) |-> ds[i].subDirs_])
FVecWalk(ds) == NonNull([i \in 1..Len(ds) |-> ds[i].subFiles_])
StrWalk(fs) == NonNull([i \in 1..Len(fs) |-> fs[i].data_])

\* the elements of sequence s
Range(s) == {s[i] : i \in 1..Len(s)}

RECURSIVE Asc(_)
\* the numbers of S in ascending order
Asc(S) == IF S = {} THEN <<>> ELSE <<Min(S)>> \o Asc(S \ {Min(S)})

\* the live cells of heap h: those the walk w meets, then the others
Cells(h, w) == w \o Asc({a \in DOMAIN h : h[a].live} \ Range(w))

\* the place of address a in order o
Rank(o, a) == IF a = NULL THEN NULL ELSE CHOOSE i \in 1..Len(o) : o[i] = a

RenameFile(f, os) == [f EXCEPT !.data_ = Rank(os, @)]
RenameDir(d, of, od) == [d EXCEPT !.subFiles_ = Rank(of, @), !.subDirs_ = Rank(od, @)]

\* Addresses are not observable by the program.  The memory with its cells
\* renumbered in the orders os, of, od:
Renumber(m, os, of, od) ==
    [m EXCEPT
       !.root = RenameDir(@, of, od),
       !.xd = RenameDir(@, of, od),
       !.xf = RenameFile(@, os),
       !.strs = [a \in DOMAIN m.strs |-> IF a <= Len(os) THEN m.strs[os[a]] ELSE FreeStr],
       !.fvecs = [a \in DOMAIN m.fvecs |->
                    IF a <= Len(of)
                    THEN [live |-> TRUE,
                          v |-> [i \in 1..Len(m.fvecs[of[a]].v) |->
                                   RenameFile(m.fvecs[of[a]].v[i], os)]]
                    ELSE FreeFVec],
       !.dvecs = [a \in DOMAIN m.dvecs |->
                    IF a <= Len(od)
                    THEN [live |-> TRUE,
                          v |-> [i \in 1..Len(m.dvecs[od[a]].v) |->
                                   RenameDir(m.dvecs[od[a]].v[i], of, od)]]
                    ELSE FreeDVec]]

\* ds: the Dirs of the caller in walk order, fs: the Files
NormalizeBy(m, ds, fs) ==
    Renumber(m, Cells(m.strs, StrWalk(fs)), Cells(m.fvecs, FVecWalk(ds)),
             Cells(m.dvecs, DVecWalk(ds)))

NormalizeDirs(m, ds) == NormalizeBy(m, ds, FileSeqFrom(m, ds, 1) \o <<m.xf>>)

Normalize(m) == NormalizeDirs(m, DirSeq(m, m.root) \o DirSeq(m, m.xd))

-----------------------------------------------------------------------------
(* The caller's program *)

\* the payloads a caller assigns
Datas == {<<1>>}
\* the names a caller uses in the tree
Names == {<<"a">>, <<"b">>}

RECURSIVE DirPlacesUnder(_, _)
\* where the Dirs below Dir value d are
DirPlacesUnder(m, d) ==
    IF d.subDirs_ = NULL THEN {}
    ELSE UNION {{LElem(d.subDirs_, i)} \cup DirPlacesUnder(m, m.dvecs[d.subDirs_].v[i]) :
                  i \in 1..Len(m.dvecs[d.subDirs_].v)}

\* where the Dirs of the tree of root are, root included
RootDirs == {LRoot} \cup DirPlacesUnder(M, root)
\* where the Dirs of the tree of xd are, xd included
XdDirs == {LXd} \cup DirPlacesUnder(M, xd)
AllDirs == RootDirs \cup XdDirs

\* where the child Files of the Dirs at places ls are
FilePlaces(m, ls) ==
    UNION {{LElem(DirAt(m, l).subFiles_, i) :
              i \in 1..Len(Kids(m.fvecs, DirAt(m, l).subFiles_))} : l \in ls}

RootFiles == FilePlaces(M, RootDirs)
TreeFiles == FilePlaces(M, AllDirs)
AllFiles == TreeFiles \cup {LXf}

\* what is recorded of a call: the operation, its isOverwrite, whether it
\* found what it looked for (a child of the name; a payload to release) and
\* whether it threw
Did(op, ow, hit, raised) == [op |-> op, ow |-> ow, hit |-> hit, raised |-> raised]

\* the trees of root and of xd in memory n hold no more Files, Dirs and nodes
\* than files, dirs and nodes
Within(n, files, dirs, nodes) ==
    /\ Len(FilesOf(n, n.root)) + Len(FilesOf(n, n.xd)) <= files
    /\ Len(DirsOf(n, n.root)) + Len(DirsOf(n, n.xd)) <= dirs
    /\ Len(FilesOf(n, n.root)) + Len(FilesOf(n, n.xd))
         + Len(DirsOf(n, n.root)) + Len(DirsOf(n, n.xd)) <= nodes

\* The step to memory m, stored as n.  A call that passes a bound of the
\* model (bounded is false) is not made.  last becomes one of lasts.
Step(m, n, lasts, bounded) ==
    /\ ~m.oom
    /\ bounded
    /\ root' = n.root
    /\ xd' = n.xd
    /\ xf' = n.xf
    /\ strs' = n.strs
    /\ fvecs' = n.fvecs
    /\ dvecs' = n.dvecs
    /\ disk' = n.disk
    /\ last' \in lasts

\* the step of a call of the caller's program: last records it or stays as
\* it is
StepTo(m, n, did) == Step(m, n, {last, did}, Within(n, MaxFiles, MaxDirs, MaxNodes))

Commit(m, did) == StepTo(m, Normalize(m), did)

\* A run is a caller's program followed by one observed call: last is "none"
\* while the program runs, and the run ends with the call that last records.
Running == last.op = "none"

Init ==
    /\ root = [EmptyDir EXCEPT !.name_ = <<"r">>]
    /\ xd = [EmptyDir EXCEPT !.name_ = <<"a">>]
    /\ xf = [EmptyFile EXCEPT !.name_ = <<"a">>]
    /\ strs = [a \in 1..StrCells |-> FreeStr]
    /\ fvecs = [a \in 1..FVecCells |-> FreeFVec]
    /\ dvecs = [a \in 1..DVecCells |-> FreeDVec]
    /\ disk = EmptyDisk
    /\ last = Did("none", FALSE, FALSE, FALSE)

\* xf goes out of scope;  File xf(name);
NewFile(name) ==
    /\ Running
    /\ Commit(File_setName(File_releaseData(M, LXf), LXf, name),
              Did("File", FALSE, FALSE, FALSE))

\* l.setName(name) on a File
FileSetName(l, name) ==
    /\ Running
    /\ Commit(File_setName(M, l, name), Did("File::setName", FALSE, FALSE, FALSE))

\* l = data on a File
FileAssign(l, data) ==
    /\ Running
    /\ Commit(File_assign(M, l, data), Did("File::operator=", FALSE, FALSE, FALSE))

\* l.releaseData() on a File
FileRelease(l) ==
    /\ Running
    /\ Commit(File_releaseData(M, l), Did("releaseData", FALSE, FALSE, FALSE))

\* the call ended in m
Ended(m, op, ow, hit) == Commit(m, Did(op, ow, hit, m.raised))

\* xd goes out of scope;  Dir xd(name);  nothing is built when Dir(name) throws
NewDir(name) ==
    /\ Running
    /\ Ended(IF isValidFilename(name)
             THEN Dir_setName(Dir_clear(M, LXd), LXd, name)
             ELSE Dir_setName(M, LTd, name),
             "Dir", FALSE, FALSE)

\* xd goes out of scope;  Dir xd;   (Dir() = default)
NewDirDefault ==
    /\ Running
    /\ Ended(SetDirAt(Dir_clear(M, LXd), LXd, EmptyDir), "Dir()", FALSE, FALSE)

\* l.setName(name) on a Dir
DirSetName(l, name) ==
    /\ Running
    /\ Ended(Dir_setName(M, l, name), "Dir::setName", FALSE, FALSE)

\* l.file(name)
DirFile(l, name) ==
    /\ Running
    /\ Ended(Dir_file(M, l, name), "file", FALSE, hasFile_(M, DirAt(M, l), name) # NOF_)

\* l.dir(name)
DirDir(l, name) ==
    /\ Running
    /\ Ended(Dir_dir(M, l, name), "dir", FALSE, hasDir_(M, DirAt(M, l), name) # NOF_)

\* l.add(xf, isOverwrite)
AddFile(l, isOverwrite) ==
    /\ Running
    /\ Ended(Dir_add_File(M, l, LXf, isOverwrite), "add(File)", isOverwrite,
             hasFile_(M, DirAt(M, l), xf.name_) # NOF_)

\* l.add(xd, isOverwrite), l a Dir of the tree of root
AddDir(l, isOverwrite) ==
    /\ Running
    /\ Ended(Dir_add_Dir(M, l, LXd, isOverwrite), "add(Dir)", isOverwrite,
             hasDir_(M, DirAt(M, l), xd.name_) # NOF_)

\* l.removeFile(name)
RemoveFile(l, name) ==
    /\ Running
    /\ Ended(Dir_removeFile(M, l, name), "removeFile", FALSE,
             hasFile_(M, DirAt(M, l), name) # NOF_)

\* l.removeDir(name)
RemoveDir(l, name) ==
    /\ Running
    /\ Ended(Dir_removeDir(M, l, name), "removeDir", FALSE,
             hasDir_(M, DirAt(M, l), name) # NOF_)

\* l.releaseAllFilesData()
ReleaseAll(l) ==
    /\ Running
    /\ Ended(Dir_releaseAllFilesData(M, l), "releaseAllFilesData", FALSE,
             Dir_size(M, DirAt(M, l)) > 0)

\* l.clearFiles()
ClearFiles(l) ==
    /\ Running
    /\ Ended(Dir_clearFiles(M, l), "clearFiles", FALSE, FALSE)

\* l.clearDirs()
ClearDirs(l) ==
    /\ Running
    /\ Ended(Dir_clearDirs(M, l), "clearDirs", FALSE, FALSE)

\* l.clear()
Clear(l) ==
    /\ Running
    /\ Ended(Dir_clear(M, l), "clear", FALSE, FALSE)

\* xf goes out of scope;  File xf(l);  l a File of a tree
CopyFile(l) ==
    /\ Running
    /\ Ended(File_copyCtor(File_releaseData(M, LXf), LXf, l), "File(const File&)", FALSE, FALSE)

\* dst = src on two File objects
AssignFile(dst, src) ==
    /\ Running
    /\ dst # src
    /\ Ended(File_copyAssign(M, dst, src), "File::operator=(const File&)", FALSE, FALSE)

\* xd goes out of scope;  Dir xd(l);  l a Dir of the tree of root
CopyDir(l) ==
    /\ Running
    /\ Ended(Dir_copyCtor(Dir_clear(M, LXd), LXd, l), "Dir(const Dir&)", FALSE, FALSE)

\* l = xd, l a Dir of the tree of root
AssignFromDir(l) ==
    /\ Running
    /\ Ended(Dir_copyAssign(M, l, LXd), "Dir::operator=", FALSE, FALSE)

\* xd = l, l a Dir of the tree of root
AssignToDir(l) ==
    /\ Running
    /\ Ended(Dir_copyAssign(M, LXd, l), "Dir::operator=", FALSE, FALSE)

Next ==
    \/ \E name \in Names : NewFile(name)
    \/ \E name \in Names : FileSetName(LXf, name)
    \/ \E l \in AllFiles, data \in Datas : FileAssign(l, data)
    \/ \E l \in AllFiles : FileRelease(l)
    \/ \E name \in Names : NewDir(name)
    \/ \E name \in Names : DirSetName(LXd, name)
    \/ \E l \in AllDirs, name \in Names : DirFile(l, name)
    \/ \E l \in AllDirs, name \in Names : DirDir(l, name)
    \/ \E l \in AllDirs, isOverwrite \in BOOLEAN : AddFile(l, isOverwrite)
    \/ \E l \in RootDirs, isOverwrite \in BOOLEAN : AddDir(l, isOverwrite)
    \/ \E l \in AllDirs : ReleaseAll(l)
    \/ \E l \in TreeFiles : CopyFile(l)
    \/ \E src \in TreeFiles : AssignFile(LXf, src)
    \/ \E l \in RootDirs : CopyDir(l)
    \/ \E l \in RootDirs : AssignToDir(l)

Spec == Init /\ [][Next]_vars

\* every live cell of the free store is owned by exactly one object
NoLeak ==
    /\ {a \in DOMAIN strs : strs[a].live}
         = Range(StrWalk(FilesOf(M, root) \o FilesOf(M, xd) \o <<xf>>))
    /\ {a \in DOMAIN fvecs : fvecs[a].live} = Range(FVecWalk(DirSeq(M, root) \o DirSeq(M, xd)))
    /\ {a \in DOMAIN dvecs : dvecs[a].live} = Range(DVecWalk(DirSeq(M, root) \o DirSeq(M, xd)))

-----------------------------------------------------------------------------
(* A caller that works on the children of root: it renames, assigns to and *)
(* removes the children that file() and dir() hand out.                    *)

\* where the child Dirs of root are
RootKids == {LElem(root.subDirs_, i) : i \in 1..Len(Kids(dvecs, root.subDirs_))}

NextChildren ==
    \/ \E name \in Names : NewFile(name)
    \/ \E data \in Datas : FileAssign(LXf, data)
    \/ \E l \in RootFiles, name \in Names : FileSetName(l, name)
    \/ \E l \in RootFiles : AssignFile(l, LXf)
    \/ \E name \in Names : NewDir(name)
    \/ \E l \in RootKids, name \in Names : DirSetName(l, name)
    \/ \E l \in RootKids : AssignFromDir(l)
    \/ \E name \in Names : DirFile(LRoot, name)
    \/ \E name \in Names : DirDir(LRoot, name)
    \/ \E isOverwrite \in BOOLEAN : AddFile(LRoot, isOverwrite)
    \/ \E isOverwrite \in BOOLEAN : AddDir(LRoot, isOverwrite)
    \/ \E name \in Names : RemoveFile(LRoot, name)
    \/ \E name \in Names : RemoveDir(LRoot, name)
    \/ ClearFiles(LRoot)
    \/ ClearDirs(LRoot)
    \/ Clear(LRoot)

SpecChildren == Init /\ [][NextChildren]_vars

-----------------------------------------------------------------------------
(* Callers that pass any name: a valid one, the empty name, "." and "..",  *)
(* each reserved character alone, and a name one occurs in.                *)

AnyNames ==
    Names \cup {<<>>, <<".">>, <<".", ".">>, <<".", "a">>, <<"a", "/">>}
          \cup {<<c>> : c \in FILENAME_INVALID_CHARS}

NextFileNames ==
    \/ \E name \in AnyNames : NewFile(name)
    \/ \E l \in AllFiles, name \in AnyNames : FileSetName(l, name)
    \/ \E name \in AnyNames : DirFile(LRoot, name)

SpecFileNames == Init /\ [][NextFileNames]_vars

NextDirNames ==
    \/ NewDirDefault
    \/ \E name \in AnyNames : NewDir(name)
    \/ \E l \in AllDirs, name \in AnyNames : DirSetName(l, name)
    \/ \E name \in AnyNames : DirDir(LRoot, name)
    \/ \E isOverwrite \in BOOLEAN : AddDir(LRoot, isOverwrite)

SpecDirNames == Init /\ [][NextDirNames]_vars

-----------------------------------------------------------------------------
(* A caller that builds the tree of root, writes it below p and loads it   *)
(* again: a run ends with root.write(p, isOverwrite) and                   *)
(* Dir xd = Dir::fromDiskPath(p/name).                                     *)

\* root.write(p, isOverwrite)
Write(isOverwrite, strict) ==
    /\ Running
    /\ Ended(Dir_write(M, root, <<>>, isOverwrite, strict), "write", isOverwrite, FALSE)

\* the load that follows the observed write
LoadStep(m, isOverwrite) ==
    Step(m, Normalize(m), {Did("fromDiskPath", isOverwrite, FALSE, m.raised)}, TRUE)

\* Dir xd = Dir::fromDiskPath(p/name), after the write that was observed;
\* nothing is built when the call throws
Load(rev) ==
    /\ last.op = "write"
    /\ ~last.raised
    /\ LoadStep(IF Dir_fromDiskPath(Dir_clear(M, LXd), LXd, <<root.name_>>, 1, rev).raised
                THEN Raise(M)
                ELSE Dir_fromDiskPath(Dir_clear(M, LXd), LXd, <<root.name_>>, 1, rev),
                last.ow)

NextDisk ==
    \/ \E l \in RootDirs, name \in Names : DirFile(l, name)
    \/ \E l \in RootDirs, name \in Names : DirDir(l, name)
    \/ \E l \in RootFiles, data \in Datas : FileAssign(l, data)
    \/ \E name \in Names : RemoveFile(LRoot, name)
    \/ \E isOverwrite \in BOOLEAN, strict \in BOOLEAN : Write(isOverwrite, strict)
    \/ \E rev \in BOOLEAN : Load(rev)

SpecDisk == Init /\ [][NextDisk]_vars

-----------------------------------------------------------------------------
(* A caller that only grows the tree of root, with file() and dir()        *)

GrowNames == Names \cup {<<"c">>}

\* the step of a call of this caller
Grown(m) ==
    Step(m, Normalize(m), {last}, Within(Normalize(m), MaxGrownFiles, MaxGrownDirs, MaxGrownNodes))

\* l.file(name)
GrowFile(l, name) ==
    /\ Running
    /\ Grown(Dir_file(M, l, name))

\* l.dir(name)
GrowDir(l, name) ==
    /\ Running
    /\ Grown(Dir_dir(M, l, name))

NextGrow ==
    \/ \E l \in RootDirs, name \in GrowNames : GrowFile(l, name)
    \/ \E l \in RootDirs, name \in GrowNames : GrowDir(l, name)

SpecGrow == Init /\ [][NextGrow]_vars

-----------------------------------------------------------------------------
(* A caller that builds the tree of root and writes it below a directory p *)
(* in which other programs have put files and directories of their own.    *)

\* the bytes of a file another program wrote
EnvData == <<2>>

\* where another program puts an entry: p/r, and below it
EnvPaths ==
    {<<root.name_>>} \cup {<<root.name_, x>> : x \in Names \cup {<<"?">>}}
        \cup {<<root.name_, x, y>> : x \in Names, y \in Names}

\* another program makes entry at path, in a directory that exists
EnvPut(path, entry) ==
    /\ path \notin DOMAIN disk
    /\ isDirectory(disk, parentPath(path))
    /\ Step(M, [M EXCEPT !.disk = (path :> entry) @@ disk], {last},
            Cardinality(DOMAIN disk) <= MaxEntries)

\* another program writes a regular file at path
EnvFile(path) ==
    /\ Running
    /\ EnvPut(path, DiskFile(EnvData))

\* another program makes a directory at path
EnvDir(path) ==
    /\ Running
    /\ EnvPut(path, DiskDir)

NextEnv ==
    \/ \E l \in RootDirs, name \in Names : DirFile(l, name)
    \/ \E l \in RootDirs, name \in Names : DirDir(l, name)
    \/ \E l \in RootFiles, data \in Datas : FileAssign(l, data)
    \/ \E path \in EnvPaths : EnvFile(path)
    \/ \E path \in EnvPaths : EnvDir(path)
    \/ \E isOverwrite \in BOOLEAN, strict \in BOOLEAN : Write(isOverwrite, strict)

SpecEnv == Init /\ [][NextEnv]_vars

-----------------------------------------------------------------------------
(* A caller that assigns to Files, appends to them and releases them       *)

\* the byte strings this caller assigns and appends
Bytes == {<<1>>, <<2>>}

\* l << data on a File
FileAppend(l, data) ==
    /\ Running
    /\ Len(File_data(M, FileAt(M, l))) + Len(data) <= MaxLen
    /\ Commit(File_append(M, l, data), Did("File::operator<<", FALSE, FALSE, FALSE))

\* dst << src on two File objects, which may be the same one
FileAppendFile(dst, src) ==
    /\ Running
    /\ Len(File_data(M, FileAt(M, dst))) + Len(File_data(M, FileAt(M, src))) <= MaxLen
    /\ Commit(File_appendFile(M, dst, src),
              Did("File::operator<<(const File&)", FALSE, FALSE, FALSE))

NextFileOps ==
    \/ \E name \in Names : DirFile(LRoot, name)
    \/ \E l \in AllFiles, data \in Bytes : FileAssign(l, data)
    \/ \E l \in AllFiles, data \in Bytes : FileAppend(l, data)
    \/ \E dst \in AllFiles, src \in AllFiles : FileAppendFile(dst, src)
    \/ \E l \in AllFiles : FileRelease(l)

SpecFileOps == Init /\ [][NextFileOps]_vars

-----------------------------------------------------------------------------
(* What a caller observes of a File and of a Dir *)

\* name() and data() of File f, and whether it holds a payload buffer
FileView(m, f) == [name |-> f.name_, has |-> f.data_ # NULL, data |-> File_data(m, f)]

\* files() of Dir d as the caller observes it, empty when there is none
FileViews(m, d) ==
    [i \in 1..Len(Kids(m.fvecs, d.subFiles_)) |-> FileView(m, m.fvecs[d.subFiles_].v[i])]

RECURSIVE DirView(_, _)
\* name(), files() and dirs() of Dir d, at every depth
DirView(m, d) ==
    [name |-> d.name_,
     files |-> FileViews(m, d),
     dirs |-> [i \in 1..Len(Kids(m.dvecs, d.subDirs_)) |->
                 DirView(m, m.dvecs[d.subDirs_].v[i])]]

\* dirs() of Dir d as the caller observes it
DirViews(m, d) == DirView(m, d).dirs

RECURSIVE NameView(_, _)
\* the names of Dir d and of its children, in their order, at every depth
NameView(m, d) ==
    [name |-> d.name_,
     files |-> [i \in 1..Len(FileViews(m, d)) |-> FileViews(m, d)[i].name],
     dirs |-> [i \in 1..Len(Kids(m.dvecs, d.subDirs_)) |->
                 NameView(m, m.dvecs[d.subDirs_].v[i])]]

\* the objects and the free store of two memories are the same
SameMemory(m, n) ==
    /\ m.root = n.root /\ m.xd = n.xd /\ m.xf = n.xf
    /\ m.strs = n.strs /\ m.fvecs = n.fvecs /\ m.dvecs = n.dvecs

-----------------------------------------------------------------------------
(* C1: the names of the children *)

\* the elements of sequence s are pairwise different
Distinct(s) == \A i, j \in 1..Len(s) : i # j => s[i] # s[j]

\* C1: after any sequence of public operations on a Dir and on the children
\* it hands out, no two child Files of one Dir have the same name and no two
\* child Dirs of one Dir have the same name.
C1_UniqueNames ==
    \A l \in AllDirs :
        /\ Distinct(NameView(M, DirAt(M, l)).files)
        /\ Distinct([i \in 1..Len(DirViews(M, DirAt(M, l))) |->
                       DirViews(M, DirAt(M, l))[i].name])

-----------------------------------------------------------------------------
(* C2: add with and without overwrite *)

\* files() after l.add(xf, isOverwrite), given files() and xf before
AddFileResult(pre, f, pos, isOverwrite) ==
    IF pos = NOF_ THEN Append(pre, f)
    ELSE IF isOverwrite THEN [pre EXCEPT ![pos + 1] = f]
    ELSE pre

\* C2 for a File: whatever Dir l of whatever tree xf is added to, when a
\* child File of that name exists the children are as many as before and
\* stay where they were, the child of that name has the payload of xf if
\* isOverwrite and its own if not, and nothing is raised; when none exists
\* xf is the new last child File.  The child Dirs of l are not touched.
AddFilePost(l, isOverwrite, m) ==
    ~m.oom =>
        /\ ~m.raised
        /\ FileViews(m, DirAt(m, l))
             = AddFileResult(FileViews(M, DirAt(M, l)), FileView(M, xf),
                             hasFile_(M, DirAt(M, l), xf.name_), isOverwrite)
        /\ DirViews(m, DirAt(m, l)) = DirViews(M, DirAt(M, l))

\* C2 for a Dir: the same for the child Dirs of a Dir l of the tree of root
\* and xd, the subtree of xd taking the place of the payload.
AddDirPost(l, isOverwrite, m) ==
    ~m.oom =>
        /\ ~m.raised
        /\ DirViews(m, DirAt(m, l))
             = AddFileResult(DirViews(M, DirAt(M, l)), DirView(M, xd),
                             hasDir_(M, DirAt(M, l), xd.name_), isOverwrite)
        /\ FileViews(m, DirAt(m, l)) = FileViews(M, DirAt(M, l))

\* C2: Dir::add(node, overwrite) leaves an existing child of the node's kind
\* and name as it was (payload or subtree, position, child count, no error)
\* when overwrite is false, gives it the payload or subtree of the node, in
\* the same position and with the same child count, when overwrite is true,
\* and appends the node as the last child of its kind when there is none.
C2_AddOverwrite ==
    /\ \A l \in AllDirs, isOverwrite \in BOOLEAN :
         AddFilePost(l, isOverwrite, Dir_add_File(M, l, LXf, isOverwrite))
    /\ \A l \in RootDirs, isOverwrite \in BOOLEAN :
         AddDirPost(l, isOverwrite, Dir_add_Dir(M, l, LXd, isOverwrite))

\* add(xf, true) was the last call and replaced the payload of the second
\* child File of root, which now has the payload xf has
C2_Witness ==
    /\ last.op = "add(File)" /\ last.hit /\ last.ow
    /\ Len(FileViews(M, root)) = 2
    /\ FileViews(M, root)[2] = FileView(M, xf)
    /\ FileViews(M, root)[2].has
    /\ ~FileViews(M, root)[1].has

-----------------------------------------------------------------------------
(* C3: what add leaves of the node supplied *)

\* C3: after Dir::add(node, overwrite) returns, in each of its three
\* outcomes, a supplied File is left without payload and a supplied Dir
\* without children.
C3_Consumed ==
    /\ \A l \in AllDirs, isOverwrite \in BOOLEAN :
         ~Dir_add_File(M, l, LXf, isOverwrite).oom
            => ~FileView(Dir_add_File(M, l, LXf, isOverwrite),
                         Dir_add_File(M, l, LXf, isOverwrite).xf).has
    /\ \A l \in RootDirs, isOverwrite \in BOOLEAN :
         ~Dir_add_Dir(M, l, LXd, isOverwrite).oom
            => /\ DirView(Dir_add_Dir(M, l, LXd, isOverwrite),
                          Dir_add_Dir(M, l, LXd, isOverwrite).xd).files = <<>>
               /\ DirView(Dir_add_Dir(M, l, LXd, isOverwrite),
                          Dir_add_Dir(M, l, LXd, isOverwrite).xd).dirs = <<>>

-----------------------------------------------------------------------------
(* C4, C5: the names that are refused *)

\* the names the contract refuses: the empty name, "." and "..", and every
\* name in which one of \ / : * ? " < > | occurs
Refused(n) ==
    \/ n = <<>>
    \/ n = <<".">>
    \/ n = <<".", ".">>
    \/ \E i \in 1..Len(n) : n[i] \in {"\\", "/", ":", "*", "?", "\"", "<", ">", "|"}

\* m is the memory after setName(n) on the File at l, or after File(n) built
\* a File there
FileNamePost(l, n, m) ==
    IF Refused(n) THEN m.raised ELSE ~m.raised /\ FileAt(m, l).name_ = n

\* C4: File::setName(n) and File(n) raise an error for every refused n and
\* succeed with name() = n for every other n, and no File with a refused
\* name comes of File(n), setName(n) or Dir::file(n).
C4_FileNames ==
    /\ \A l \in AllFiles, n \in AnyNames : FileNamePost(l, n, File_setName(M, l, n))
    /\ \A n \in AnyNames :
         FileNamePost(LXf, n, File_setName(File_releaseData(M, LXf), LXf, n))
    /\ \A l \in AllFiles : ~Refused(FileAt(M, l).name_)

\* m is the memory after setName(n) on the Dir at l
DirNamePost(l, n, m) ==
    IF Refused(n)
    THEN m.raised /\ DirView(m, DirAt(m, l)) = DirView(M, DirAt(M, l))
    ELSE ~m.raised /\ DirAt(m, l).name_ = n

\* C5: Dir::setName(n) succeeds with name() = n for every n not refused, and
\* for every refused n raises an error and leaves the name and the children
\* as they were; Dir(n) and Dir::dir(n) with a refused n raise the error, and
\* dir(n) then leaves the child collections of the parent unchanged.
C5_DirNames ==
    /\ \A l \in AllDirs, n \in AnyNames : DirNamePost(l, n, Dir_setName(M, l, n))
    /\ \A n \in AnyNames : Refused(n) => Dir_setName(M, LTd, n).raised
    /\ \A l \in AllDirs, n \in AnyNames :
         Refused(n) =>
            /\ Dir_dir(M, l, n).raised
            /\ DirView(Dir_dir(M, l, n), DirAt(Dir_dir(M, l, n), l)) = DirView(M, DirAt(M, l))

-----------------------------------------------------------------------------
(* C6: file(name) and dir(name) *)

\* the new child File that file(name) appends
NewFileView(name) == [name |-> name, has |-> FALSE, data |-> <<>>]

\* the new child Dir that dir(name) appends
NewDirView(name) == [name |-> name, files |-> <<>>, dirs |-> <<>>]

\* C6 for file(name), m the memory after l.file(name) and m2 the memory after
\* a second l.file(name)
FilePost(l, name, pos, m, m2) ==
    ~m.oom =>
        /\ pos # NOF_ => SameMemory(m, M) /\ m.ret = pos
        /\ pos = NOF_ =>
             /\ FileViews(m, DirAt(m, l)) = Append(FileViews(M, DirAt(M, l)), NewFileView(name))
             /\ m.ret = Len(FileViews(M, DirAt(M, l)))
        /\ DirViews(m, DirAt(m, l)) = DirViews(M, DirAt(M, l))
        /\ m2.ret = m.ret
        /\ SameMemory(m2, m)

\* C6 for dir(name), m the memory after l.dir(name) and m2 the memory after a
\* second l.dir(name)
DirPost(l, name, pos, m, m2) ==
    ~m.oom /\ ~m.raised =>
        /\ pos # NOF_ => SameMemory(m, M) /\ m.ret = pos
        /\ pos = NOF_ =>
             /\ DirViews(m, DirAt(m, l)) = Append(DirViews(M, DirAt(M, l)), NewDirView(name))
             /\ m.ret = Len(DirViews(M, DirAt(M, l)))
        /\ FileViews(m, DirAt(m, l)) = FileViews(M, DirAt(M, l))
        /\ m2.ret = m.ret
        /\ SameMemory(m2, m)

\* C6: Dir::file(name) returns the child File of that name and changes
\* nothing when there is one, and otherwise appends one child File of that
\* name, without payload, and returns it; a second call returns the same
\* child; the child Dirs are untouched.  Dir::dir(name) likewise, for a new
\* child Dir without children, the child Files untouched.
C6_AccessOrCreate ==
    /\ \A l \in AllDirs, name \in Names :
         FilePost(l, name, hasFile_(M, DirAt(M, l), name), Dir_file(M, l, name),
                  Dir_file(Dir_file(M, l, name), l, name))
    /\ \A l \in AllDirs, name \in Names :
         DirPost(l, name, hasDir_(M, DirAt(M, l), name), Dir_dir(M, l, name),
                 Dir_dir(Dir_dir(M, l, name), l, name))

\* dir(name) was the last call and appended a second child Dir to a Dir that
\* has a child File of the same name
C6_Witness ==
    /\ last.op = "dir" /\ ~last.hit
    /\ Len(DirViews(M, root)) = 2
    /\ DirViews(M, root)[2] = NewDirView(DirViews(M, root)[2].name)
    /\ \E i \in 1..Len(FileViews(M, root)) :
         FileViews(M, root)[i].name = DirViews(M, root)[2].name

-----------------------------------------------------------------------------
(* C7: the round trip over the disk *)

RECURSIVE Unordered(_)
\* the names at every level and the payload bytes of a Dir as DirView has
\* it, the order of the children left out
Unordered(v) ==
    [name |-> v.name,
     files |-> {[name |-> v.files[i].name, data |-> v.files[i].data] :
                  i \in 1..Len(v.files)},
     dirs |-> {Unordered(v.dirs[i]) : i \in 1..Len(v.dirs)}]

\* every File of the tree of root has a payload
AllPayload == \A i \in 1..Len(FilesOf(M, root)) : FilesOf(M, root)[i].data_ # NULL

\* C7: for every tree built in memory in which every File has a payload and
\* every existing directory p, write(p, true) followed by
\* fromDiskPath(p/name) returns a tree with the same Dir and File names at
\* every level and the same payload bytes, whatever the order of insertion.
C7_RoundTrip ==
    last.ow /\ AllPayload =>
        /\ last.op = "write" => ~last.raised
        /\ last.op = "fromDiskPath" =>
             /\ ~last.raised
             /\ Unordered(DirView(M, xd)) = Unordered(DirView(M, root))

-----------------------------------------------------------------------------
(* C8: the counts *)

\* C8: fileCount(false) and dirCount(false) are the numbers of direct child
\* Files and Dirs, fileCount(true) and dirCount(true) the numbers of Files
\* and Dirs at any depth below the node, the node not counted, and count(r)
\* is fileCount(r) + dirCount(r).
C8_Counts ==
    \A l \in AllDirs :
        /\ Dir_fileCount(M, DirAt(M, l), FALSE) = Len(FileViews(M, DirAt(M, l)))
        /\ Dir_dirCount(M, DirAt(M, l), FALSE) = Len(DirViews(M, DirAt(M, l)))
        /\ Dir_fileCount(M, DirAt(M, l), TRUE) = Len(FilesOf(M, DirAt(M, l)))
        /\ Dir_dirCount(M, DirAt(M, l), TRUE) = Len(DirsOf(M, DirAt(M, l)))
        /\ \A r \in BOOLEAN :
             Dir_count(M, DirAt(M, l), r)
               = Dir_fileCount(M, DirAt(M, l), r) + Dir_dirCount(M, DirAt(M, l), r)

\* root has 2 child Files and 1 child Dir that has 3 child Files:
\* count(true) is 6 and count(false) is 3
C8_Witness ==
    /\ Len(FileViews(M, root)) = 2
    /\ Len(DirViews(M, root)) = 1
    /\ Len(DirViews(M, root)[1].files) = 3
    /\ Dir_count(M, root, TRUE) = 6
    /\ Dir_count(M, root, FALSE) = 3

-----------------------------------------------------------------------------
(* C9: releaseAllFilesData *)

\* C9 for Dir l, m the memory after l.releaseAllFilesData() and m2 the memory
\* after a second l.releaseAllFilesData()
ReleasePost(l, m, m2) ==
    /\ \A i \in 1..Len(DirSeq(m, DirAt(m, l))) : Dir_size(m, DirSeq(m, DirAt(m, l))[i]) = 0
    /\ \A i \in 1..Len(FilesOf(m, DirAt(m, l))) : File_data(m, FilesOf(m, DirAt(m, l))[i]) = <<>>
    /\ NameView(m, DirAt(m, l)) = NameView(M, DirAt(M, l))
    /\ \A r \in BOOLEAN :
         /\ Dir_fileCount(m, DirAt(m, l), r) = Dir_fileCount(M, DirAt(M, l), r)
         /\ Dir_dirCount(m, DirAt(m, l), r) = Dir_dirCount(M, DirAt(M, l), r)
    /\ SameMemory(m2, m)

\* C9: after Dir::releaseAllFilesData() size() is 0 for the node and every
\* descendant Dir, every descendant File has empty data, the names and the
\* order of the children at every level and fileCount and dirCount are as
\* before, and a second call changes nothing.
C9_ReleaseAll ==
    \A l \in AllDirs :
        ReleasePost(l, Dir_releaseAllFilesData(M, l),
                    Dir_releaseAllFilesData(Dir_releaseAllFilesData(M, l), l))

\* root.releaseAllFilesData() was the last call and released a payload; root
\* has a child File and a child Dir with a child File
C9_Witness ==
    /\ last.op = "releaseAllFilesData" /\ last.hit
    /\ Len(FileViews(M, root)) = 1
    /\ Len(DirViews(M, root)) = 1
    /\ Len(DirViews(M, root)[1].files) = 1
    /\ Dir_size(M, root) = 0

-----------------------------------------------------------------------------
(* C10: copies *)

\* the payload buffers, the Vec<File> and the Vec<Dir> objects Dir d owns
StrsOf(m, d) == Range(StrWalk(FilesOf(m, d)))
FVecsOf(m, d) == Range(FVecWalk(DirSeq(m, d)))
DVecsOf(m, d) == Range(DVecWalk(DirSeq(m, d)))

\* Dirs c and d of memory m have no payload buffer and no child collection
\* in common
Apart(m, c, d) ==
    /\ StrsOf(m, c) \cap StrsOf(m, d) = {}
    /\ FVecsOf(m, c) \cap FVecsOf(m, d) = {}
    /\ DVecsOf(m, c) \cap DVecsOf(m, d) = {}

\* m is the memory after the File at dst was made a copy of the File at src
FileCopyPost(dst, src, m) ==
    ~m.oom =>
        /\ FileView(m, FileAt(m, dst)) = FileView(M, FileAt(M, src))
        /\ FileView(m, FileAt(m, src)) = FileView(M, FileAt(M, src))
        /\ FileAt(m, dst).data_ # NULL => FileAt(m, dst).data_ # FileAt(m, src).data_

\* m is the memory after the Dir at dst was made a copy of the Dir at src
DirCopyPost(dst, src, m) ==
    ~m.oom =>
        /\ DirView(m, DirAt(m, dst)) = DirView(M, DirAt(M, src))
        /\ DirView(m, DirAt(m, src)) = DirView(M, DirAt(M, src))
        /\ Apart(m, DirAt(m, dst), DirAt(m, src))

\* the memories after one mutating call on a Dir at one of the places ds or
\* on a File at one of the places fs
Mutations(ds, fs) ==
    {File_assign(M, f, data) : f \in fs, data \in Datas}
    \cup {File_releaseData(M, f) : f \in fs}
    \cup {File_setName(M, f, name) : f \in fs, name \in Names}
    \cup {Dir_setName(M, l, name) : l \in ds, name \in Names}
    \cup {Dir_file(M, l, name) : l \in ds, name \in Names}
    \cup {Dir_dir(M, l, name) : l \in ds, name \in Names}
    \cup {Dir_removeFile(M, l, name) : l \in ds, name \in Names}
    \cup {Dir_removeDir(M, l, name) : l \in ds, name \in Names}
    \cup {Dir_clearFiles(M, l) : l \in ds}
    \cup {Dir_clearDirs(M, l) : l \in ds}
    \cup {Dir_clear(M, l) : l \in ds}
    \cup {Dir_releaseAllFilesData(M, l) : l \in ds}

\* C10: a copy of a File or of a Dir (copy constructor, copy assignment from
\* a distinct node) has the name, the payload bytes and the descendants of
\* its source, which stays as it was, and shares no payload buffer and no
\* child collection with it; the objects of the caller own disjoint parts of
\* the free store, and a mutating call on one of them or on a descendant
\* leaves the names, structure and payload bytes of the others unchanged.
C10_CopyIndependent ==
    /\ \A l \in TreeFiles :
         /\ FileCopyPost(LXf, l, File_copyCtor(File_releaseData(M, LXf), LXf, l))
         /\ FileCopyPost(LXf, l, File_copyAssign(M, LXf, l))
         /\ FileCopyPost(l, LXf, File_copyAssign(M, l, LXf))
    /\ \A l \in RootDirs :
         /\ DirCopyPost(LXd, l, Dir_copyCtor(Dir_clear(M, LXd), LXd, l))
         /\ DirCopyPost(LXd, l, Dir_copyAssign(M, LXd, l))
    /\ DirCopyPost(LRoot, LXd, Dir_copyAssign(M, LRoot, LXd))
    /\ Apart(M, root, xd)
    /\ xf.data_ # NULL => xf.data_ \notin StrsOf(M, root) \cup StrsOf(M, xd)
    /\ \A m \in Mutations(RootDirs, RootFiles) :
         ~m.oom => DirView(m, m.xd) = DirView(M, xd) /\ FileView(m, m.xf) = FileView(M, xf)
    /\ \A m \in Mutations(XdDirs, TreeFiles \ RootFiles) :
         ~m.oom => DirView(m, m.root) = DirView(M, root) /\ FileView(m, m.xf) = FileView(M, xf)
    /\ \A m \in Mutations({}, {LXf}) :
         ~m.oom => DirView(m, m.root) = DirView(M, root) /\ DirView(m, m.xd) = DirView(M, xd)

\* Dir xd(root) was the last call: xd is a copy of root and has a child File
\* with a payload, in a buffer of its own
C10_Witness ==
    /\ last.op = "Dir(const Dir&)"
    /\ DirView(M, xd) = DirView(M, root)
    /\ \E i \in 1..Len(FileViews(M, xd)) : FileViews(M, xd)[i].has
    /\ Apart(M, root, xd)

-----------------------------------------------------------------------------
(* C11: what a move leaves of its source *)

\* m is the memory after the File at src was moved to the File at dst: dst
\* has the name and the payload bytes src had, src has no payload, its name
\* as before, and takes a payload again
FileMovePost(dst, src, m) ==
    /\ FileAt(m, dst).name_ = FileAt(M, src).name_
    /\ File_data(m, FileAt(m, dst)) = File_data(M, FileAt(M, src))
    /\ ~FileView(m, FileAt(m, src)).has
    /\ FileAt(m, src).name_ = FileAt(M, src).name_
    /\ \A data \in Datas :
         ~File_assign(m, src, data).oom =>
            File_data(File_assign(m, src, data), FileAt(File_assign(m, src, data), src)) = data

\* m is the memory after the Dir at src was moved to the Dir at dst: dst has
\* the child collections src had, src has no children and its name as before
DirMovePost(dst, src, m) ==
    /\ DirView(m, DirAt(m, dst)) = DirView(M, DirAt(M, src))
    /\ DirAt(m, src).name_ = DirAt(M, src).name_
    /\ Dir_fileCount(m, DirAt(m, src), FALSE) = 0
    /\ Dir_dirCount(m, DirAt(m, src), FALSE) = 0

\* C11: moving from a File, by `File t(std::move(f))` or by
\* `xf = std::move(f)`, gives the destination the name and the payload bytes
\* of the source and leaves the source without payload, still usable; moving
\* from a Dir by `Dir t(std::move(d))` gives the destination both child
\* collections and leaves the source without children.
C11_Moved ==
    /\ \A src \in AllFiles : FileMovePost(LTf, src, File_moveCtor(M, LTf, src))
    /\ \A src \in TreeFiles :
         ~File_copyAssign(M, LXf, src).oom
            => FileMovePost(LXf, src, File_copyAssign(M, LXf, src))
    /\ \A src \in AllDirs : DirMovePost(LTd, src, Dir_moveCtor(M, LTd, src))

-----------------------------------------------------------------------------
(* C12: removeFile and removeDir *)

\* sequence s without its element at position pos, counted from 0
Without(s, pos) == SubSeq(s, 1, pos) \o SubSeq(s, pos + 2, Len(s))

\* m is the memory after l.removeFile(name)
RemoveFilePost(l, name, m) ==
    /\ ~m.raised
    /\ DirViews(m, DirAt(m, l)) = DirViews(M, DirAt(M, l))
    /\ DirAt(m, l).name_ = DirAt(M, l).name_
    /\ IF hasFile_(M, DirAt(M, l), name) = NOF_
       THEN SameMemory(m, M)
       ELSE /\ FileViews(m, DirAt(m, l))
                 = Without(FileViews(M, DirAt(M, l)), hasFile_(M, DirAt(M, l), name))
            /\ ~Dir_hasFile(m, DirAt(m, l), name, FALSE)

\* m is the memory after l.removeDir(name)
RemoveDirPost(l, name, m) ==
    /\ ~m.raised
    /\ FileViews(m, DirAt(m, l)) = FileViews(M, DirAt(M, l))
    /\ DirAt(m, l).name_ = DirAt(M, l).name_
    /\ IF hasDir_(M, DirAt(M, l), name) = NOF_
       THEN SameMemory(m, M)
       ELSE /\ DirViews(m, DirAt(m, l))
                 = Without(DirViews(M, DirAt(M, l)), hasDir_(M, DirAt(M, l), name))
            /\ ~Dir_hasDir(m, DirAt(m, l), name, FALSE)

\* C12: removeFile(name) and removeDir(name) leave the tree as it is and
\* raise nothing when no child of the kind has the name, also on a Dir that
\* never had children; otherwise they remove that one child, the other
\* children of the kind keep their order, the children of the other kind stay
\* as they are, and hasFile(name, false) (hasDir(name, false)) is false
\* afterwards.
C12_Remove ==
    /\ \A l \in AllDirs, name \in Names :
         ~Dir_removeFile(M, l, name).oom => RemoveFilePost(l, name, Dir_removeFile(M, l, name))
    /\ \A l \in AllDirs, name \in Names :
         ~Dir_removeDir(M, l, name).oom => RemoveDirPost(l, name, Dir_removeDir(M, l, name))

-----------------------------------------------------------------------------
(* C13: a child collection that holds nothing *)

\* the queries of Dir d, whose collection of child Files holds nothing,
\* answer as for an empty collection
NoFilesPost(l) ==
    /\ Dir_fileCount(M, DirAt(M, l), FALSE) = 0
    /\ \A name \in Names : ~Dir_hasFile(M, DirAt(M, l), name, FALSE)
    /\ \A name \in Names : SameMemory(Dir_removeFile(M, l, name), M)
    /\ Kids(M.dvecs, DirAt(M, l).subDirs_) = <<>> =>
          /\ Dir_size(M, DirAt(M, l)) = 0
          /\ Dir_count(M, DirAt(M, l), TRUE) = 0
          /\ \A name \in Names : ~Dir_hasFile(M, DirAt(M, l), name, TRUE)

\* the same for the collection of child Dirs
NoDirsPost(l) ==
    /\ Dir_dirCount(M, DirAt(M, l), TRUE) = 0
    /\ \A name \in Names : ~Dir_hasDir(M, DirAt(M, l), name, TRUE)
    /\ \A name \in Names : SameMemory(Dir_removeDir(M, l, name), M)

\* C13: in every reachable state, a Dir whose collection of child Files (of
\* child Dirs) holds nothing -- never allocated, cleared, moved from, or
\* emptied by removals -- answers as an empty collection: the counts and
\* size() are 0, hasFile and hasDir are false, removeFile and removeDir change
\* nothing, and files() and dirs() yield the empty sequence without
\* dereferencing a collection that is not allocated.
C13_EmptyCollections ==
    \A l \in AllDirs :
        /\ Kids(M.fvecs, DirAt(M, l).subFiles_) = <<>> =>
              /\ NoFilesPost(l)
              /\ \A o \in Dir_files(M, DirAt(M, l)) : ~o.crash /\ o.v = <<>>
        /\ Kids(M.dvecs, DirAt(M, l).subDirs_) = <<>> =>
              /\ NoDirsPost(l)
              /\ \A o \in Dir_dirs(M, DirAt(M, l)) : ~o.crash /\ o.v = <<>>

-----------------------------------------------------------------------------
(* C14: write with isOverwrite = false *)

RECURSIVE Wanted(_, _)
\* what writing the Dir with view v below path is to put on the disk: a
\* directory for v, a regular file for each File and the same for each Dir
\* below it
Wanted(v, path) ==
    {[path |-> Append(path, v.name), kind |-> "dir", data |-> <<>>]}
        \cup {[path |-> Append(Append(path, v.name), v.files[i].name), kind |-> "file",
                data |-> v.files[i].data] : i \in 1..Len(v.files)}
        \cup UNION {Wanted(v.dirs[i], Append(path, v.name)) : i \in 1..Len(v.dirs)}

\* every regular file of disk dk is in disk dk2 with the same bytes
FilesKept(dk, dk2) ==
    \A q \in DOMAIN dk : isFile(dk, q) => isFile(dk2, q) /\ dk2[q].data = dk[q].data

\* disk dk2 has what is wanted, with the wanted bytes in the regular files
\* that disk dk did not have
Created(want, dk, dk2) ==
    \A w \in want :
        /\ w.path \in DOMAIN dk2
        /\ dk2[w.path].kind = w.kind
        /\ w.path \notin DOMAIN dk => dk2[w.path].data = w.data

\* File f written to directory path, where a regular file of its name is,
\* leaves the disk as it is and raises nothing
FileKeptPost(f, path) ==
    isFile(disk, Append(path, f.name_)) =>
        /\ File_write(M, f, path, FALSE).disk = disk
        /\ ~File_write(M, f, path, FALSE).raised

\* C14: File::write(dir, false) changes nothing on disk and raises nothing
\* when a regular file is at dir/name; Dir::write(parent, false) changes the
\* bytes of no regular file that was there before the call, at any depth,
\* and creates the directories and the files that were not there.
C14_NoOverwrite ==
    /\ \A l \in AllFiles, path \in DOMAIN disk : FileKeptPost(FileAt(M, l), path)
    /\ \A strict \in BOOLEAN :
         /\ FilesKept(disk, Dir_write(M, root, <<>>, FALSE, strict).disk)
         /\ Created(Wanted(DirView(M, root), <<>>), disk,
                    Dir_write(M, root, <<>>, FALSE, strict).disk)

-----------------------------------------------------------------------------
(* C15: the order in which write goes through the tree *)

RECURSIVE Concat(_)
\* the sequences of ss, one after the other
Concat(ss) == IF ss = <<>> THEN <<>> ELSE Head(ss) \o Concat(Tail(ss))

RECURSIVE InOrder(_, _, _)
\* the calls on the file system in the claimed order, for the Dir with view
\* v written below path: the directory of v is made, then each child File
\* is written in the order of the collection, then each child Dir is gone
\* through in the order of the collection; every File is written with ow
InOrder(v, path, ow) ==
    <<[op |-> "createDirectory", path |-> Append(path, v.name), ow |-> FALSE]>>
        \o [i \in 1..Len(v.files) |->
              [op |-> "write", path |-> Append(Append(path, v.name), v.files[i].name),
               ow |-> ow]]
        \o Concat([i \in 1..Len(v.dirs) |-> InOrder(v.dirs[i], Append(path, v.name), ow)])

\* sequence s is the beginning of sequence t
Prefix(s, t) == Len(s) <= Len(t) /\ s = SubSeq(t, 1, Len(s))

\* m is the memory after root.write(p, ow): the calls it made are those of
\* the claimed order, all of them unless it threw
WriteOrderPost(ow, m) ==
    /\ Prefix(m.log, InOrder(DirView(M, root), <<>>, ow))
    /\ ~m.raised => m.log = InOrder(DirView(M, root), <<>>, ow)

\* C15: during Dir::write(parent, overwrite), for every Dir d of the tree,
\* the directory of d is created before anything in it is written, the
\* child Files of d are written before a child Dir of d is created,
\* children of one kind are written in the order of their collection, and
\* every File at every depth is written with the same overwrite flag.
C15_WriteOrder ==
    \A isOverwrite \in BOOLEAN, strict \in BOOLEAN :
        WriteOrderPost(isOverwrite, Dir_write(M, root, <<>>, isOverwrite, strict))

\* root.write(p, true) was the last call and did not throw: root has a
\* child File and a child Dir that has a child File, and all three are on
\* the disk
C15_Witness ==
    /\ last.op = "write" /\ last.ow /\ ~last.raised
    /\ Len(FileViews(M, root)) = 1
    /\ Len(DirViews(M, root)) = 1
    /\ Len(DirViews(M, root)[1].files) = 1
    /\ Created(Wanted(DirView(M, root), <<>>), EmptyDisk, disk)

-----------------------------------------------------------------------------
(* C16: the tree fromDiskPath builds *)

\* the paths a caller loads from: the entries of the disk, each also with a
\* separator at its end and as its own ".", and places where nothing is
LoadPaths ==
    (DOMAIN disk \ {<<>>})
        \cup {Append(q, <<>>) : q \in DOMAIN disk \ {<<>>}}
        \cup {Append(q, <<".">>) : q \in DOMAIN disk \ {<<>>}}
        \cup {<<x>> : x \in Names}

RECURSIVE Mirrors(_, _, _)
\* the Dir with view v has the name of directory q of disk dk, one child
\* File for each regular file in q, with its name and its bytes, and one
\* child Dir for each directory in q, which mirrors it
Mirrors(v, dk, q) ==
    /\ v.name = filenameEx(q)
    /\ Len(v.files) = Cardinality(Entries(dk, q, "file"))
    /\ {<<v.files[i].name, v.files[i].data>> : i \in 1..Len(v.files)}
         = {<<filenameEx(e), dk[e].data>> : e \in Entries(dk, q, "file")}
    /\ Len(v.dirs) = Cardinality(Entries(dk, q, "dir"))
    /\ \A e \in Entries(dk, q, "dir") :
         \E i \in 1..Len(v.dirs) : Mirrors(v.dirs[i], dk, e)

\* m is the memory after Dir xd = Dir::fromDiskPath(path)
LoadPost(path, m) ==
    IF isDirectory(disk, path)
    THEN ~m.raised /\ Mirrors(DirView(m, m.xd), disk, Resolve(path))
    ELSE m.raised

\* C16: Dir::fromDiskPath(path) raises an error when path is not an existing
\* directory; for every path that is an existing directory it returns a Dir
\* with the name of the last component of the path that has, at every
\* level, exactly one child Dir for each directory in it and one child File
\* for each regular file in it, with the bytes that are on the disk.
C16_Load ==
    \A path \in LoadPaths, rev \in BOOLEAN :
        ~Dir_fromDiskPath(Dir_clear(M, LXd), LXd, path, 1, rev).oom
            => LoadPost(path, Dir_fromDiskPath(Dir_clear(M, LXd), LXd, path, 1, rev))

-----------------------------------------------------------------------------
(* C17: the payload after assignments, appends and releases *)

\* the calls on a File that are followed: assign and append of a byte
\* string, append of a File, releaseData
FileOps ==
    {[op |-> "assign", data |-> d, src |-> LXf] : d \in Bytes}
        \cup {[op |-> "append", data |-> d, src |-> LXf] : d \in Bytes}
        \cup {[op |-> "appendFile", data |-> <<>>, src |-> l] : l \in AllFiles}
        \cup {[op |-> "release", data |-> <<>>, src |-> LXf]}

\* the sequences of at most MaxOps such calls
FileOpSeqs == UNION {[1..n -> FileOps] : n \in 0..MaxOps}

\* the memory after call o on the File at l
ApplyOp(m, l, o) ==
    CASE o.op = "assign" -> File_assign(m, l, o.data)
      [] o.op = "append" -> File_append(m, l, o.data)
      [] o.op = "appendFile" -> File_appendFile(m, l, o.src)
      [] OTHER -> File_releaseData(m, l)

RECURSIVE ApplyOps(_, _, _, _)
\* the memory after the calls os, from the i-th on, on the File at l
ApplyOps(m, l, os, i) ==
    IF i > Len(os) THEN m ELSE ApplyOps(ApplyOp(m, l, os[i]), l, os, i + 1)

RECURSIVE Payload(_, _, _, _)
\* the payload the claim gives the File at l, that had payload cur, after
\* the calls os from the i-th on: the argument of the last assign, or
\* nothing after a release, followed by what was appended since
Payload(cur, l, os, i) ==
    IF i > Len(os) THEN cur
    ELSE Payload(CASE os[i].op = "assign" -> os[i].data
                   [] os[i].op = "append" -> cur \o os[i].data
                   [] os[i].op = "appendFile" ->
                        cur \o (IF os[i].src = l THEN cur
                                ELSE File_data(M, FileAt(M, os[i].src)))
                   [] OTHER -> <<>>,
                 l, os, i + 1)

\* m is the memory after the calls os on the File at l
FileOpsPost(l, os, m) ==
    /\ File_data(m, FileAt(m, l)) = Payload(File_data(M, FileAt(M, l)), l, os, 1)
    /\ File_size(m, FileAt(m, l)) = Len(File_data(m, FileAt(m, l)))
    /\ FileAt(m, l).name_ = FileAt(M, l).name_
    /\ File_writeStream(m, FileAt(m, l)) = File_data(m, FileAt(m, l))
    /\ FileAt(m, l).data_ = NULL => File_writeStream(m, FileAt(m, l)) = <<>>
    /\ (os # <<>> /\ os[Len(os)].op = "release") => FileAt(m, l).data_ = NULL

\* C17: after any sequence of assign, append (of bytes or of a File) and
\* releaseData on a File, data() is the argument of the last assign (nothing
\* when a releaseData came after it) followed by what was appended since, in
\* order; size() is the length of data(); name() is as it was; and
\* write(stream) emits data(), nothing when there is no payload.
C17_Payload ==
    \A l \in AllFiles, os \in FileOpSeqs :
        ~ApplyOps(M, l, os, 1).oom => FileOpsPost(l, os, ApplyOps(M, l, os, 1))

\* xf << bytes was the last call, on a payload that was assigned: data() is
\* the two byte strings one after the other
C17_Witness ==
    /\ last.op = "File::operator<<"
    /\ File_data(M, xf) = <<1, 2>>
    /\ File_size(M, xf) = 2

-----------------------------------------------------------------------------
(* C18: source and destination are the same object, or one holds the other *)

\* where the child Dirs of the Dir at place l are
ChildDirPlaces(l) ==
    {LElem(DirAt(M, l).subDirs_, i) : i \in 1..Len(Kids(M.dvecs, DirAt(M, l).subDirs_))}

\* where the child Files of the Dir at place l are
ChildFilePlaces(l) == FilePlaces(M, {l})

\* the memory in which `dst = src` of two Dirs comes to read other.subFiles_:
\* after `name_ = other.name_; clear();`
AfterClear(dst, src) ==
    Dir_clear(SetDirAt(M, dst, [DirAt(M, dst) EXCEPT !.name_ = DirAt(M, src).name_]), dst)

\* the Dir at place l is an element of a vector that memory m has deleted
Destroyed(m, l) == l.k = "vec" /\ ~m.dvecs[l.a].live

\* `f = f` of the File at place l
FileSelfPost(l) ==
    ~File_copyAssign(M, l, l).oom
        => FileView(File_copyAssign(M, l, l), FileAt(File_copyAssign(M, l, l), l))
              = FileView(M, FileAt(M, l))

\* `d = d` of the Dir at place l
DirSelfPost(l) ==
    ~Dir_copyAssign(M, l, l).oom
        => DirView(Dir_copyAssign(M, l, l), DirAt(Dir_copyAssign(M, l, l), l))
              = DirView(M, DirAt(M, l))

\* `d = d.dir(x)` of the Dir d at place l and its child x at place src
DirFromChildPost(l, src) ==
    /\ ~Destroyed(AfterClear(l, src), src)
    /\ ~Dir_copyAssign(M, l, src).oom
          => DirView(Dir_copyAssign(M, l, src), DirAt(Dir_copyAssign(M, l, src), l))
                = DirView(M, DirAt(M, src))

\* `d.add(d.file(n), true)` of the Dir d at place l and its child n at place src
AddOwnFilePost(l, src) ==
    ~Dir_add_File(M, l, src, TRUE).oom
        => DirView(Dir_add_File(M, l, src, TRUE), DirAt(Dir_add_File(M, l, src, TRUE), l))
              = DirView(M, DirAt(M, l))

\* `d.add(d.dir(n), true)` of the Dir d at place l and its child n at place src
AddOwnDirPost(l, src) ==
    ~Dir_add_Dir(M, l, src, TRUE).oom
        => DirView(Dir_add_Dir(M, l, src, TRUE), DirAt(Dir_add_Dir(M, l, src, TRUE), l))
              = DirView(M, DirAt(M, l))

\* C18: `f = f` leaves the name and the payload of a File as they were,
\* `d = d` leaves the children of a Dir as they were, `d = d.dir(x)` makes d
\* what its child x was and reads no destroyed Dir, and `d.add(d.file(n), true)`
\* and `d.add(d.dir(n), true)` leave d, the payload and the subtree of child n
\* included, as it was.
C18_Aliasing ==
    /\ \A l \in AllFiles : FileSelfPost(l)
    /\ \A l \in AllDirs : DirSelfPost(l)
    /\ \A l \in AllDirs : \A src \in ChildDirPlaces(l) : DirFromChildPost(l, src)
    /\ \A l \in AllDirs : \A src \in ChildFilePlaces(l) : AddOwnFilePost(l, src)
    /\ \A l \in AllDirs : \A src \in ChildDirPlaces(l) : AddOwnDirPost(l, src)

====
